---------------------------- MODULE Spec2Model ----------------------------
(***************************************************************************)
(* A model of the emulation layer of the Braket SDK:                       *)
(*   - BaseEmulator, the pass orchestrator (base_emulator.py);             *)
(*   - the connectivity and gate-connectivity graph builders and the gate  *)
(*     name translator of the AWS emulation layer (aws_emulation.py).      *)
(* Each part has its own specification over the shared variables: Spec     *)
(* (the orchestrator), SpecGraph (the graph builders), SpecTranslate (the  *)
(* translator).                                                            *)
(***************************************************************************)
EXTENDS Integers, Sequences, FiniteSets, TLC

VARIABLES
    heap,        \* list objects: list id -> the sequence of its elements
    emuRef,      \* emulator -> the list object its _emulator_passes refers to
    callerInit,  \* what the caller's list held when it was created
    added,       \* list id -> every element add_pass appended to it, in call order
    call,        \* the last call made on an emulator, with its outcome
    properties,          \* the device capabilities record given to a builder
    connectivity_graph,  \* the caller's connectivity graph (a DiGraph)
    built,               \* the last validator built, with the graph it was given
    gate_name,           \* the argument of _get_qpu_gate_translations
    translated,          \* what _get_qpu_gate_translations returned for it
    criterion_graph,     \* _gate_connectivity_graph of a GateConnectivityCriterion
    circuit,             \* circuit.instructions of the circuit given to it
    checked,             \* the last call made on the criterion, with its outcome
    tket_passes,         \* _tket_passes of a TketCompilerPass
    pytket,              \* pytket circuit objects: object -> its commands
    ran,                 \* the last run of the compiler pass, with its outcome
    ahs_properties,      \* the capability record given to the constants builder
    constants,           \* the DeviceCapabilitiesConstants built from it
    ahs_program,         \* the part of an analog program given to a validator
    ahs_checked,         \* the last validator run on it, with its outcome
    noise_properties,    \* the capability record given to the noise model
    noise_model,         \* the AhsNoise built from it, with its _noise_data
    noise_program,       \* the analog program given to the noise pass
    noisy,               \* the last run of the noise pass, with its outcome
    rz_circuit,          \* the commands of the circuit given to _virtualize_rz
    virtualized          \* what _virtualize_rz did with it

orchVars == <<heap, emuRef, callerInit, added, call>>
graphVars == <<properties, connectivity_graph, built>>
translateVars == <<gate_name, translated>>
checkVars == <<criterion_graph, circuit, checked>>
tketVars == <<tket_passes, pytket, ran>>
ahsVars == <<ahs_properties, constants, ahs_program, ahs_checked>>
noiseVars == <<noise_properties, noise_model, noise_program, noisy>>
rzVars == <<rz_circuit, virtualized>>
passVars == <<checkVars, tketVars, ahsVars, noiseVars, rzVars>>
vars == <<orchVars, graphVars, translateVars, passVars>>

-----------------------------------------------------------------------------
(* Bounds.                                                                 *)

\* Programs are 0..MaxProg.
MaxProg == 2
\* The list objects together hold at most MaxElems elements.
MaxElems == 3
\* A connectivity graph has at most MaxEdges edges.
MaxEdges == 2
\* A calibration table has at most MaxKeys entries.
MaxKeys == 2
\* A sequence of gate names to translate has at most MaxNames names.
MaxNames == 2
\* A circuit has at most MaxInstr instructions.
MaxInstr == 4
\* A compiler pass holds at most MaxPasses rewrite passes.
MaxPasses == 2
\* A program given to the compiler pass has at most MaxGates gates.
MaxGates == 2
\* A time series has at most MaxPoints points.
MaxPoints == 3
\* A Hamiltonian has at most MaxBlocks local-detuning blocks.
MaxBlocks == 2
\* A local-detuning pattern has at most MaxSites sites.
MaxSites == 2
\* A register has at most MaxAtoms sites.
MaxAtoms == 3
\* The y coordinates of the sites are 0..MaxY, in micrometres.
MaxY == 3
\* Decimal("0.000002"), in micrometres.
LocalRowDistance == 2
\* The time points of a series are 0..MaxTime.
MaxTime == 2
\* The noise pass is asked for at most MaxSteps time points.
MaxSteps == 3
\* The angles of a circuit's rotations are at most MaxAngle.
MaxAngle == 2
\* A circuit given to the Rz-virtualization pass has at most MaxCommands commands.
MaxCommands == 3

Programs == 0..MaxProg

-----------------------------------------------------------------------------
(* Passes.  BasePass, ValidationPass and the concrete passes are defined   *)
(* outside the modelled files; three pass objects stand for them: a        *)
(* validation pass that rejects some programs, a transform pass that       *)
(* rewrites the program, and the transform pass of the unit tests that     *)
(* always raises.                                                          *)

Passes == {"QubitCountValidator", "TketCompilerPass", "AlwaysFailPass"}

\* The characters a string argument of add_pass iterates over.
Chars == {"s"}

Elems == Passes \cup Chars

\* isinstance(x, BasePass)
IsBasePass(x) == x \in Passes

\* isinstance(x, ValidationPass)
IsValidationPass(x) == x = "QubitCountValidator"

\* Whether x(program) raises: a non-pass element is not callable, the
\* validation pass rejects the largest program, AlwaysFailPass always raises.
PassRaises(x, program) ==
    CASE ~IsBasePass(x) -> TRUE
      [] x = "AlwaysFailPass" -> TRUE
      [] x = "QubitCountValidator" -> program = MaxProg
      [] OTHER -> FALSE

\* The exception x(program) raises.
PassError(x, program) ==
    IF IsBasePass(x) THEN [type |-> "ValueError", by |-> x]
    ELSE [type |-> "TypeError", by |-> x]

\* The program x(program) returns: a validation pass returns its input, the
\* transform pass returns another program.
PassCall(x, program) ==
    IF IsValidationPass(x) THEN program ELSE (program + 1) % (MaxProg + 1)

NoError == [type |-> "", by |-> ""]
NoArg == [tag |-> "", items |-> <<>>]
NoCall == [op |-> "none", emu |-> "", arg |-> NoArg, input |-> -1,
           status |-> "none", result |-> -1, returned |-> "", error |-> NoError,
           log |-> <<>>]

-----------------------------------------------------------------------------
(* BaseEmulator                                                            *)

Emulators == {"e1", "e2"}
ListIds == {"caller"} \cup Emulators

\* BaseEmulator.__init__: the emulator keeps the list object it is given, or
\* a new empty list (the list object named after the emulator) for None.
BaseEmulator_init(e, emulator_passes) ==
    IF emulator_passes # "None" THEN emulator_passes ELSE e

\* The for loop of run_passes from position i on: each pass is called with
\* the program the previous one returned; an exception ends the loop.
RECURSIVE RunFrom(_, _, _, _)
RunFrom(list, i, task_specification, log) ==
    IF i > Len(list)
    THEN [status |-> "returned", result |-> task_specification,
          error |-> NoError, log |-> log]
    ELSE LET emulator_pass == list[i]
             log2 == Append(log, [pos |-> i, pass |-> emulator_pass,
                                  given |-> task_specification])
         IN  IF PassRaises(emulator_pass, task_specification)
             THEN [status |-> "raised", result |-> -1,
                   error |-> PassError(emulator_pass, task_specification),
                   log |-> log2]
             ELSE RunFrom(list, i + 1,
                          PassCall(emulator_pass, task_specification), log2)

\* Mutant: every pass is given the caller's program (the loop does not
\* rebind task_specification).
RECURSIVE RunFromNoRebind(_, _, _, _, _)
RunFromNoRebind(list, i, task_specification, last, log) ==
    IF i > Len(list)
    THEN [status |-> "returned", result |-> last, error |-> NoError, log |-> log]
    ELSE LET emulator_pass == list[i]
             log2 == Append(log, [pos |-> i, pass |-> emulator_pass,
                                  given |-> task_specification])
         IN  IF PassRaises(emulator_pass, task_specification)
             THEN [status |-> "raised", result |-> -1,
                   error |-> PassError(emulator_pass, task_specification),
                   log |-> log2]
             ELSE RunFromNoRebind(list, i + 1, task_specification,
                                  PassCall(emulator_pass, task_specification), log2)

run_passes_no_rebind(list, task_specification) ==
    RunFromNoRebind(list, 1, task_specification, task_specification, <<>>)

\* Mutant: a pass that raises is skipped and the loop goes on; the first
\* error is raised at the end.
RECURSIVE RunFromSkipping(_, _, _, _, _)
RunFromSkipping(list, i, task_specification, err, log) ==
    IF i > Len(list)
    THEN IF err = NoError
         THEN [status |-> "returned", result |-> task_specification,
               error |-> NoError, log |-> log]
         ELSE [status |-> "raised", result |-> -1, error |-> err, log |-> log]
    ELSE LET emulator_pass == list[i]
             log2 == Append(log, [pos |-> i, pass |-> emulator_pass,
                                  given |-> task_specification])
         IN  IF PassRaises(emulator_pass, task_specification)
             THEN RunFromSkipping(list, i + 1, task_specification,
                      IF err = NoError
                      THEN PassError(emulator_pass, task_specification) ELSE err,
                      log2)
             ELSE RunFromSkipping(list, i + 1,
                      PassCall(emulator_pass, task_specification), err, log2)

run_passes_skipping(list, task_specification) ==
    RunFromSkipping(list, 1, task_specification, NoError, <<>>)

run_passes(list, task_specification) ==
    RunFrom(list, 1, task_specification, <<>>)

\* The for loop of validate from position i on: only ValidationPass
\* instances are called, each with the caller's program; nothing is returned.
RECURSIVE ValidateFrom(_, _, _, _)
ValidateFrom(list, i, task_specification, log) ==
    IF i > Len(list)
    THEN [status |-> "returned", result |-> -1, error |-> NoError, log |-> log]
    ELSE LET emulator_pass == list[i]
             log2 == Append(log, [pos |-> i, pass |-> emulator_pass,
                                  given |-> task_specification])
         IN  IF ~IsValidationPass(emulator_pass)
             THEN ValidateFrom(list, i + 1, task_specification, log)
             ELSE IF PassRaises(emulator_pass, task_specification)
             THEN [status |-> "raised", result |-> -1,
                   error |-> PassError(emulator_pass, task_specification),
                   log |-> log2]
             ELSE ValidateFrom(list, i + 1, task_specification, log2)

\* Mutant: validate without the isinstance test.
validate_every_pass(list, task_specification) ==
    [RunFromNoRebind(list, 1, task_specification, task_specification, <<>>)
        EXCEPT !.result = -1]

validate(list, task_specification) ==
    ValidateFrom(list, 1, task_specification, <<>>)

\* The arguments of add_pass: a pass, an iterable of passes, None (neither),
\* and a string (an iterable whose elements are characters).
AddArgs ==
    {[tag |-> "pass", items |-> <<p>>] : p \in Passes}
    \cup {[tag |-> "iterable", items |-> <<>>]}
    \cup {[tag |-> "iterable", items |-> <<p>>] : p \in Passes}
    \cup {[tag |-> "iterable", items |-> <<p, q>>] : p \in Passes, q \in Passes}
    \cup {[tag |-> "None", items |-> <<>>]}
    \cup {[tag |-> "str", items |-> <<c>>] : c \in Chars}

\* isinstance(emulator_pass, Iterable)
IsIterable(arg) == arg.tag \in {"iterable", "str"}

\* Mutant: the new passes are put in front of the list.
add_pass_in_front(list, emulator_pass) ==
    IF IsIterable(emulator_pass)
    THEN [list |-> emulator_pass.items \o list, status |-> "returned",
          error |-> NoError]
    ELSE IF emulator_pass.tag = "pass"
    THEN [list |-> <<emulator_pass.items[1]>> \o list, status |-> "returned",
          error |-> NoError]
    ELSE [list |-> list, status |-> "raised",
          error |-> [type |-> "TypeError", by |-> "add_pass"]]

\* Mutant: no type check, whatever is not iterable is appended.
add_pass_unchecked(list, emulator_pass) ==
    IF IsIterable(emulator_pass)
    THEN [list |-> list \o emulator_pass.items, status |-> "returned",
          error |-> NoError]
    ELSE [list |-> Append(list, IF emulator_pass.tag = "pass"
                                THEN emulator_pass.items[1] ELSE "None"),
          status |-> "returned", error |-> NoError]

\* add_pass on a list: extend for an iterable, append for a pass, TypeError
\* otherwise.
add_pass(list, emulator_pass) ==
    IF IsIterable(emulator_pass)
    THEN [list |-> list \o emulator_pass.items, status |-> "returned",
          error |-> NoError]
    ELSE IF emulator_pass.tag = "pass"
    THEN [list |-> Append(list, emulator_pass.items[1]), status |-> "returned",
          error |-> NoError]
    ELSE [list |-> list, status |-> "raised",
          error |-> [type |-> "TypeError", by |-> "add_pass"]]

-----------------------------------------------------------------------------
(* Gate name translation (aws_emulation.py).                               *)

\* The device families: the capability types with a registered handler, and
\* any other DeviceCapabilities.
Families == {"Rigetti", "IQM", "IonQ", "Other"}

\* Mutant: translations.get(gate_name) without the default, and no
\* passthrough where no table is registered.
KnownNamesOnly(family, name) ==
    CASE family = "Rigetti" /\ name = "CPHASE" -> "CPhaseShift"
      [] family = "IonQ" /\ name = "GPI" -> "GPi"
      [] family = "IonQ" /\ name = "GPI2" -> "GPi2"
      [] OTHER -> "None"

\* Mutant: an IonQ table whose values are again keys of the table.
translation_not_canonical(family, name) ==
    CASE family = "Rigetti" ->
            IF name = "CPHASE" THEN "CPhaseShift" ELSE name
      [] family = "IonQ" ->
            IF name = "GPI" THEN "GPI2"
            ELSE IF name = "GPI2" THEN "GPi2" ELSE name
      [] OTHER -> name

\* _get_qpu_gate_translation, dispatched on the capability type:
\* translations.get(gate_name, gate_name), or gate_name where no table is
\* registered.
_get_qpu_gate_translation(family, name) ==
    CASE family = "Rigetti" ->
            IF name = "CPHASE" THEN "CPhaseShift" ELSE name
      [] family = "IonQ" ->
            IF name = "GPI" THEN "GPi"
            ELSE IF name = "GPI2" THEN "GPi2" ELSE name
      [] OTHER -> name

\* The list comprehension over the names, in order.
RECURSIVE TranslateEach(_, _)
TranslateEach(family, names) ==
    IF names = <<>> THEN <<>>
    ELSE <<_get_qpu_gate_translation(family, Head(names))>>
            \o TranslateEach(family, Tail(names))

\* Mutant: names that translate to the same name are stored once.
RECURSIVE TranslateEachOnce(_, _)
TranslateEachOnce(family, names) ==
    IF names = <<>> THEN <<>>
    ELSE LET rest == TranslateEachOnce(family, Tail(names))
             t == _get_qpu_gate_translation(family, Head(names))
         IN  IF \E i \in 1..Len(rest) : rest[i] = t THEN rest ELSE <<t>> \o rest

translations_once(family, arg) ==
    IF arg.tag = "str"
    THEN [tag |-> "str", names |-> <<_get_qpu_gate_translation(family, arg.names[1])>>]
    ELSE [tag |-> "list", names |-> TranslateEachOnce(family, arg.names)]

\* _get_qpu_gate_translations: a str gives a str, anything else is iterated
\* into a list.  A value is [tag, names]: a str holds its one name.
_get_qpu_gate_translations(family, arg) ==
    IF arg.tag = "str"
    THEN [tag |-> "str", names |-> <<_get_qpu_gate_translation(family, arg.names[1])>>]
    ELSE [tag |-> "list", names |-> TranslateEach(family, arg.names)]

-----------------------------------------------------------------------------
(* networkx.DiGraph, as far as the builders use it: the nodes in insertion *)
(* order, each node's successors in insertion order, and each edge's       *)
(* attribute dict (whether it holds "supported_gates", and the set).       *)

Nodes == {0, 1, 2}

NoAttr == [has |-> FALSE, gates |-> {}]

EmptyGraph == [node |-> <<>>,
               adj |-> [n \in Nodes |-> <<>>],
               attr |-> [e \in Nodes \X Nodes |-> NoAttr]]

InSeq(s, x) == \E i \in 1..Len(s) : s[i] = x

HasEdge(g, u, v) == InSeq(g.adj[u], v)

\* G.edges as a set, and G.nodes as a set.
Edges(g) == {e \in Nodes \X Nodes : HasEdge(g, e[1], e[2])}
NodeSet(g) == {g.node[i] : i \in 1..Len(g.node)}

\* G[u][v]["supported_gates"] of an edge that holds it.
SupportedGates(g, u, v) == g.attr[<<u, v>>].gates

add_node(g, n) ==
    IF InSeq(g.node, n) THEN g ELSE [g EXCEPT !.node = Append(@, n)]

\* G.add_edge(u, v, **attr): the nodes are added if new, the edge's dict is
\* the existing one or a new one, updated with attr (upd.has: whether
\* supported_gates is given).
add_edge(g, u, v, upd) ==
    LET g1 == add_node(add_node(g, u), v)
        old == IF HasEdge(g1, u, v) THEN g1.attr[<<u, v>>] ELSE NoAttr
    IN  [g1 EXCEPT !.adj[u] = IF HasEdge(g1, u, v) THEN @ ELSE Append(@, v),
                   !.attr[<<u, v>>] = IF upd.has THEN upd ELSE old]

\* G[u][v]["supported_gates"] = gates
set_supported_gates(g, u, v, gates) ==
    [g EXCEPT !.attr[<<u, v>>] = [has |-> TRUE, gates |-> gates]]

\* G.copy(): a new graph with the nodes, then the edges node by node, each
\* with a copy of its attribute dict.
RECURSIVE CopyEdges(_, _, _, _)
CopyEdges(g, new, ni, ei) ==
    IF ni > Len(g.node) THEN new
    ELSE LET u == g.node[ni]
         IN  IF ei > Len(g.adj[u]) THEN CopyEdges(g, new, ni + 1, 1)
             ELSE LET v == g.adj[u][ei]
                  IN  CopyEdges(g, add_edge(new, u, v, g.attr[<<u, v>>]), ni, ei + 1)

RECURSIVE CopyNodes(_, _, _)
CopyNodes(g, new, ni) ==
    IF ni > Len(g.node) THEN new
    ELSE CopyNodes(g, add_node(new, g.node[ni]), ni + 1)

copy(g) == CopyEdges(g, CopyNodes(g, EmptyGraph, 1), 1, 1)

\* A dict that is being iterated got a new key: the node dict, or the
\* successor dict of the node u whose edges are being yielded.
SizeChanged(g, g2, u) ==
    Len(g2.node) # Len(g.node) \/ Len(g2.adj[u]) # Len(g.adj[u])

\* nx.DiGraph(edge list): the caller's graph.
RECURSIVE FromEdgeList(_)
FromEdgeList(edges) ==
    IF edges = <<>> THEN EmptyGraph
    ELSE LET e == edges[Len(edges)]
         IN  add_edge(FromEdgeList(SubSeq(edges, 1, Len(edges) - 1)),
                      e[1], e[2], NoAttr)

-----------------------------------------------------------------------------
(* The connectivity validators (aws_emulation.py).                         *)

\* The loop of the IQM handler over the live edge view, from the ei-th
\* successor of the ni-th node on: add the back-edge of every edge yielded.
RECURSIVE IqmBackEdges(_, _, _)
IqmBackEdges(g, ni, ei) ==
    IF ni > Len(g.node) THEN [status |-> "ok", graph |-> g]
    ELSE LET u == g.node[ni]
         IN  IF ei > Len(g.adj[u]) THEN IqmBackEdges(g, ni + 1, 1)
             ELSE LET v == g.adj[u][ei]
                      g2 == add_edge(g, v, u, NoAttr)
                  IN  IF SizeChanged(g, g2, u)
                      THEN [status |-> "RuntimeError", graph |-> g2]
                      ELSE IqmBackEdges(g2, ni, ei + 1)

\* Mutant: the IQM handler without the loop (the default handler).
connectivity_validator_default(props, graph) ==
    [status |-> "ok", graph |-> graph]

\* _connectivity_validator: the graph the ConnectivityValidator is given.
_connectivity_validator(props, graph) ==
    IF props.family = "IQM" THEN IqmBackEdges(copy(graph), 1, 1)
    ELSE [status |-> "ok", graph |-> graph]

\* "-".join([str(qubit) for qubit in (u, v)])
EdgeKey(u, v) == ToString(u) \o "-" \o ToString(v)

SeqToSet(s) == {s[i] : i \in 1..Len(s)}

\* Mutant: edge_properties[edge_key] instead of .get(edge_key).
edge_gates_keyerror(props, u, v) ==
    LET edge_key == EdgeKey(u, v)
    IN  IF edge_key \notin DOMAIN props.twoQubitProperties
        THEN [status |-> "KeyError", gates |-> {}]
        ELSE [status |-> "ok",
              gates |-> SeqToSet(_get_qpu_gate_translations(props.family,
                    [tag |-> "list",
                     names |-> props.twoQubitProperties[edge_key]]).names)]

\* Mutant: the reverse key is looked up when the edge has no entry.
edge_gates_either_key(props, u, v) ==
    LET key == IF EdgeKey(u, v) \in DOMAIN props.twoQubitProperties
               THEN EdgeKey(u, v) ELSE EdgeKey(v, u)
    IN  IF key \notin DOMAIN props.twoQubitProperties
        THEN [status |-> "ok", gates |-> {}]
        ELSE [status |-> "ok",
              gates |-> SeqToSet(_get_qpu_gate_translations(props.family,
                    [tag |-> "list",
                     names |-> props.twoQubitProperties[key]]).names)]

\* The body of the first loop of the Rigetti/IQM handler for edge (u, v):
\* the set the edge gets, empty where the table has no entry under "u-v".
edge_gates(props, u, v) ==
    LET edge_key == EdgeKey(u, v)
    IN  IF edge_key \notin DOMAIN props.twoQubitProperties
        THEN [status |-> "ok", gates |-> {}]
        ELSE [status |-> "ok",
              gates |-> SeqToSet(_get_qpu_gate_translations(props.family,
                    [tag |-> "list",
                     names |-> props.twoQubitProperties[edge_key]]).names)]

\* The first loop of the Rigetti/IQM handler over the edge view.
RECURSIVE FillSupportedGates(_, _, _, _)
FillSupportedGates(props, g, ni, ei) ==
    IF ni > Len(g.node) THEN [status |-> "ok", graph |-> g]
    ELSE LET u == g.node[ni]
         IN  IF ei > Len(g.adj[u]) THEN FillSupportedGates(props, g, ni + 1, 1)
             ELSE LET v == g.adj[u][ei]
                      r == edge_gates(props, u, v)
                  IN  IF r.status # "ok" THEN [status |-> r.status, graph |-> g]
                      ELSE FillSupportedGates(props,
                               set_supported_gates(g, u, v, r.gates), ni, ei + 1)

\* Mutant: the back-edge is added only where it is absent.
needs_reverse_if_absent(g, u, v) == ~HasEdge(g, v, u)

\* The test of the second loop: the back-edge is absent, or holds no
\* supported_gates or an empty set.
needs_reverse(g, u, v) ==
    \/ ~HasEdge(g, v, u)
    \/ ~g.attr[<<v, u>>].has
    \/ g.attr[<<v, u>>].gates = {}

\* The second loop of the Rigetti/IQM handler over the live edge view.
RECURSIVE AddReversed(_, _, _)
AddReversed(g, ni, ei) ==
    IF ni > Len(g.node) THEN [status |-> "ok", graph |-> g]
    ELSE LET u == g.node[ni]
         IN  IF ei > Len(g.adj[u]) THEN AddReversed(g, ni + 1, 1)
             ELSE LET v == g.adj[u][ei]
                      need == needs_reverse(g, u, v)
                  IN  IF need /\ ~g.attr[<<u, v>>].has
                      THEN [status |-> "KeyError", graph |-> g]
                      ELSE LET g2 == IF need
                                     THEN add_edge(g, v, u,
                                            [has |-> TRUE,
                                             gates |-> SupportedGates(g, u, v)])
                                     ELSE g
                           IN  IF SizeChanged(g, g2, u)
                               THEN [status |-> "RuntimeError", graph |-> g2]
                               ELSE AddReversed(g2, ni, ei + 1)

\* The Rigetti/IQM handler of _gate_connectivity_validator.
gate_connectivity_calibrated(props, graph) ==
    LET filled == FillSupportedGates(props, copy(graph), 1, 1)
    IN  IF filled.status # "ok" THEN filled
        ELSE AddReversed(filled.graph, 1, 1)

\* The loop of the IonQ handler: every edge gets the native gates.
RECURSIVE FillNativeGates(_, _, _, _)
FillNativeGates(native_gates, g, ni, ei) ==
    IF ni > Len(g.node) THEN [status |-> "ok", graph |-> g]
    ELSE LET u == g.node[ni]
         IN  IF ei > Len(g.adj[u]) THEN FillNativeGates(native_gates, g, ni + 1, 1)
             ELSE FillNativeGates(native_gates,
                      set_supported_gates(g, u, g.adj[u][ei], native_gates),
                      ni, ei + 1)

\* _gate_connectivity_validator: the graph the GateConnectivityValidator is
\* given, or the error raised.
_gate_connectivity_validator(props, graph) ==
    CASE props.family \in {"Rigetti", "IQM"} ->
            gate_connectivity_calibrated(props, graph)
      [] props.family = "IonQ" ->
            FillNativeGates(
                SeqToSet(_get_qpu_gate_translations(props.family,
                    [tag |-> "list", names |-> props.nativeGateSet]).names),
                copy(graph), 1, 1)
      [] OTHER -> [status |-> "NotImplementedError", graph |-> EmptyGraph]

\* The loop of the IQM handlers of the routing pass and of the nativization
\* pass is the loop of the IQM connectivity validator.
_lexi_mapping_routing_pass(props, graph) ==
    CASE props.family = "IQM" -> IqmBackEdges(copy(graph), 1, 1)
      [] props.family \in {"Rigetti", "IonQ"} -> [status |-> "ok", graph |-> graph]
      [] OTHER -> [status |-> "NotImplementedError", graph |-> EmptyGraph]

\* create_nativization_pass: the graph whose edges make the Architecture;
\* the default handler returns NoOpPass().
create_nativization_pass(props, graph) ==
    IF props.family = "IQM" THEN IqmBackEdges(copy(graph), 1, 1)
    ELSE [status |-> "ok", graph |-> EmptyGraph]

BuilderOps ==
    {"connectivity_validator", "gate_connectivity_validator",
     "lexi_mapping_routing_pass", "create_nativization_pass"}

\* The graph a builder hands on, or the error it raises.
BuilderResult(op, props, graph) ==
    CASE op = "connectivity_validator" -> _connectivity_validator(props, graph)
      [] op = "gate_connectivity_validator" -> _gate_connectivity_validator(props, graph)
      [] op = "lexi_mapping_routing_pass" -> _lexi_mapping_routing_pass(props, graph)
      [] OTHER -> create_nativization_pass(props, graph)

\* The handlers that add edges or attributes to the graph they work on;
\* each starts with connectivity_graph.copy().
MutatingHandlers ==
    {<<"connectivity_validator", "IQM">>, <<"gate_connectivity_validator", "Rigetti">>,
     <<"gate_connectivity_validator", "IQM">>, <<"gate_connectivity_validator", "IonQ">>,
     <<"lexi_mapping_routing_pass", "IQM">>, <<"create_nativization_pass", "IQM">>}

\* Mutant: the handler works on the graph it was given.
graph_without_copy(graph) == [object |-> "caller", graph |-> graph]

\* connectivity_graph.copy(): the graph object the handler works on.
graph_copy(graph) == [object |-> "new", graph |-> copy(graph)]

\* The caller's graph after a builder: what the handler left in the object
\* it worked on when that object is the caller's.
CallerGraphAfter(op, props, graph) ==
    IF <<op, props.family>> \in MutatingHandlers /\ graph_copy(graph).object = "caller"
    THEN BuilderResult(op, props, graph).graph
    ELSE graph

-----------------------------------------------------------------------------
(* The inputs of the builders and of the translator.                       *)

RECURSIVE SeqsUpTo(_, _)
SeqsUpTo(S, n) ==
    IF n = 0 THEN {<<>>}
    ELSE LET shorter == SeqsUpTo(S, n - 1)
         IN  shorter \cup {Append(s, x) : s \in shorter, x \in S}

\* The pairs of distinct qubits.
QubitPairs == {e \in Nodes \X Nodes : e[1] # e[2]}

\* Edge lists without repetition.
EdgeLists ==
    {s \in SeqsUpTo(QubitPairs, MaxEdges) :
        \A i, j \in 1..Len(s) : i # j => s[i] # s[j]}

InputGraphs == {FromEdgeList(s) : s \in EdgeLists}

\* The gateName lists of a twoQubitGateFidelity entry.
GateLists == {<<"CZ">>, <<"CZ", "CPHASE">>}

AllKeys == {EdgeKey(e[1], e[2]) : e \in QubitPairs}

\* standardized.twoQubitProperties: edge key -> gate names.
Tables ==
    UNION {[K -> GateLists] : K \in {S \in SUBSET AllKeys : Cardinality(S) <= MaxKeys}}

EmptyTable == [k \in {} |-> <<>>]

\* paradigm.nativeGateSet
NativeGateSet(family) ==
    CASE family = "IonQ" -> <<"CZ", "CPhaseShift", "GPI">>
      [] OTHER -> <<"cz", "prx", "cphaseshift">>

\* The capability records: a calibration table for the families whose
\* handler reads one.
PropertiesSet ==
    {[family |-> f, twoQubitProperties |-> t, nativeGateSet |-> NativeGateSet(f)] :
        f \in {"Rigetti", "IQM"}, t \in Tables}
    \cup {[family |-> f, twoQubitProperties |-> EmptyTable,
           nativeGateSet |-> NativeGateSet(f)] : f \in {"IonQ", "Other"}}

GateNames == {"CPHASE", "CPhaseShift", "GPI", "GPi", "GPI2", "GPi2", "CZ", "fake_gate"}

TranslateArgs ==
    {[tag |-> "str", names |-> <<n>>] : n \in GateNames}
    \cup {[tag |-> "list", names |-> s] : s \in SeqsUpTo(GateNames, MaxNames)}

-----------------------------------------------------------------------------
(* GateConnectivityCriterion (gate_connectivity_criterion.py).             *)

\* An instruction: the kind of its operator ("StartVerbatimBox",
\* "EndVerbatimBox" or "Gate"), the operator's name and qubit_count, and the
\* instruction's control and target qubits.
Directive(kind) ==
    [kind |-> kind, name |-> kind, qubit_count |-> 0,
     control |-> <<>>, target |-> <<>>]

GateInstruction(name, control, target) ==
    [kind |-> "Gate", name |-> name, qubit_count |-> Len(target),
     control |-> control, target |-> target]

NoCheckError ==
    [type |-> "None", msg |-> "None", qubits |-> <<>>, gate |-> "None", index |-> 0]

CheckError(type, msg, qubits, gate, index) ==
    [type |-> type, msg |-> msg, qubits |-> qubits, gate |-> gate, index |-> index]

\* __init__ with a dict of edges (its items in order) mapped to supported
\* gates: every edge is added with its gates, and in the undirected mode its
\* back-edge too, unless the back-edge is a key of the dict.
RECURSIVE InitFromDict(_, _, _, _)
InitFromDict(g, items, i, directed) ==
    IF i > Len(items) THEN g
    ELSE LET edge == items[i][1]
             upd == [has |-> TRUE, gates |-> items[i][2]]
             g1 == add_edge(g, edge[1], edge[2], upd)
             inDict == \E j \in 1..Len(items) : items[j][1] = <<edge[2], edge[1]>>
             g2 == IF ~directed /\ ~inDict
                   THEN add_edge(g1, edge[2], edge[1], upd) ELSE g1
         IN  InitFromDict(g2, items, i + 1, directed)

GateConnectivityCriterion_init(items, directed) ==
    InitFromDict(EmptyGraph, items, 1, directed)

\* __init__ with a DiGraph in the undirected mode: the loop over the live
\* edge view of the graph, from the ei-th successor of the ni-th node on.
\* The back-edge of every edge yielded is added with the edge's
\* supported_gates unless the graph has it.
RECURSIVE InitFromDiGraph(_, _, _)
InitFromDiGraph(g, ni, ei) ==
    IF ni > Len(g.node) THEN [status |-> "returned", error |-> NoCheckError, graph |-> g]
    ELSE LET u == g.node[ni]
         IN  IF ei > Len(g.adj[u]) THEN InitFromDiGraph(g, ni + 1, 1)
             ELSE LET v == g.adj[u][ei]
                      g2 == add_edge(g, v, u, g.attr[<<u, v>>])
                  IN  IF HasEdge(g, v, u) THEN InitFromDiGraph(g, ni, ei + 1)
                      ELSE IF ~g.attr[<<u, v>>].has
                      THEN [status |-> "raised", graph |-> g,
                            error |-> CheckError("KeyError", "supported_gates",
                                                 <<u, v>>, "None", 0)]
                      ELSE IF SizeChanged(g, g2, u)
                      THEN [status |-> "raised", graph |-> g2,
                            error |-> CheckError("RuntimeError",
                                                 "dictionary changed size during iteration",
                                                 <<u, v>>, "None", 0)]
                      ELSE InitFromDiGraph(g2, ni, ei + 1)

\* __init__ with a DiGraph: self._gate_connectivity_graph is the object
\* given, and the undirected mode adds the back-edges to it.  The result is
\* the state of that one object after the call.
GateConnectivityCriterion_init_DiGraph(gate_connectivity_graph, directed) ==
    IF directed
    THEN [status |-> "returned", error |-> NoCheckError,
          graph |-> gate_connectivity_graph]
    ELSE InitFromDiGraph(gate_connectivity_graph, 1, 1)

\* Mutant: a missing edge and a missing gate are reported alike.
connectivity_one_error(g, name, control_qubits, target_qubits) ==
    IF ~(\/ Len(control_qubits) = 1 /\ Len(target_qubits) = 1
         \/ Len(control_qubits) = 0 /\ Len(target_qubits) = 2)
    THEN CheckError("ValueError", "Unrecognized qubit targetting", <<>>, "None", 0)
    ELSE LET e == IF Len(control_qubits) = 1
                  THEN <<control_qubits[1], target_qubits[1]>>
                  ELSE <<target_qubits[1], target_qubits[2]>>
         IN  IF ~HasEdge(g, e[1], e[2]) \/ name \notin SupportedGates(g, e[1], e[2])
             THEN CheckError("ValueError", "is not connected to", e, "None", 0)
             ELSE NoCheckError

\* validate_instruction_connectivity: the error it raises, or NoCheckError.
validate_instruction_connectivity(g, name, control_qubits, target_qubits) ==
    IF ~(\/ Len(control_qubits) = 1 /\ Len(target_qubits) = 1
         \/ Len(control_qubits) = 0 /\ Len(target_qubits) = 2)
    THEN CheckError("ValueError", "Unrecognized qubit targetting", <<>>, "None", 0)
    ELSE LET e == IF Len(control_qubits) = 1
                  THEN <<control_qubits[1], target_qubits[1]>>
                  ELSE <<target_qubits[1], target_qubits[2]>>
         IN  IF ~HasEdge(g, e[1], e[2])
             THEN CheckError("ValueError", "is not connected to", e, "None", 0)
             ELSE IF ~g.attr[e].has
             THEN CheckError("KeyError", "supported_gates", e, "None", 0)
             ELSE IF name \notin SupportedGates(g, e[1], e[2])
             THEN CheckError("ValueError", "does not support gate", e, name, 0)
             ELSE NoCheckError

\* The body of the while loop of validate for one instruction of a verbatim
\* box: the error it raises, or NoCheckError.
CheckInBox(g, instruction) ==
    IF instruction.kind # "Gate" THEN NoCheckError
    ELSE IF instruction.qubit_count = 2
    THEN validate_instruction_connectivity(g, instruction.name,
                                           instruction.control, instruction.target)
    ELSE IF instruction.target[1] \notin NodeSet(g)
    THEN CheckError("ValueError", "does not exist in the device topology",
                    <<instruction.target[1]>>, "None", 0)
    ELSE NoCheckError

\* Mutant: the end of the instructions closes an open box.
RECURSIVE ScanBoxToEnd(_, _, _, _)
ScanBoxToEnd(g, instructions, idx, log) ==
    IF idx < Len(instructions) /\ instructions[idx + 1].kind # "EndVerbatimBox"
    THEN LET instruction == instructions[idx + 1]
             err == CheckInBox(g, instruction)
             log1 == IF instruction.kind = "Gate" THEN Append(log, idx) ELSE log
         IN  IF err # NoCheckError
             THEN [status |-> "raised", error |-> err, log |-> log1]
             ELSE ScanBoxToEnd(g, instructions, idx + 1, log1)
    ELSE [status |-> "returned", error |-> NoCheckError, log |-> log]

\* The while loop of validate from index idx (counted from 0) on, and the
\* test that follows it.  log holds the indices of the gates the loop has
\* checked.
RECURSIVE ScanBox(_, _, _, _)
ScanBox(g, instructions, idx, log) ==
    IF idx < Len(instructions) /\ instructions[idx + 1].kind # "EndVerbatimBox"
    THEN LET instruction == instructions[idx + 1]
             err == CheckInBox(g, instruction)
             log1 == IF instruction.kind = "Gate" THEN Append(log, idx) ELSE log
         IN  IF err # NoCheckError
             THEN [status |-> "raised", error |-> err, log |-> log1]
             ELSE ScanBox(g, instructions, idx + 1, log1)
    ELSE IF idx = Len(instructions)
    THEN [status |-> "raised", log |-> log,
          error |-> CheckError("ValueError", "No end verbatim box found", <<>>, "None", idx)]
    ELSE [status |-> "returned", error |-> NoCheckError, log |-> log]

\* Mutant: every gate of the circuit is checked, in a box or not.
RECURSIVE ValidateEveryGateFrom(_, _, _, _)
ValidateEveryGateFrom(g, instructions, idx, log) ==
    IF idx >= Len(instructions)
    THEN [status |-> "returned", error |-> NoCheckError, log |-> log]
    ELSE LET err == CheckInBox(g, instructions[idx + 1])
         IN  IF err # NoCheckError
             THEN [status |-> "raised", error |-> err, log |-> Append(log, idx)]
             ELSE ValidateEveryGateFrom(g, instructions, idx + 1,
                    IF instructions[idx + 1].kind = "Gate" THEN Append(log, idx) ELSE log)

\* The for loop of validate from index idx on: range() yields every index,
\* whatever the body assigned to idx.
RECURSIVE ValidateCircuitFrom(_, _, _, _)
ValidateCircuitFrom(g, instructions, idx, log) ==
    IF idx >= Len(instructions)
    THEN [status |-> "returned", error |-> NoCheckError, log |-> log]
    ELSE IF instructions[idx + 1].kind = "StartVerbatimBox"
    THEN LET r == ScanBox(g, instructions, idx + 1, log)
         IN  IF r.status = "raised" THEN r
             ELSE ValidateCircuitFrom(g, instructions, idx + 1, r.log)
    ELSE ValidateCircuitFrom(g, instructions, idx + 1, log)

\* GateConnectivityCriterion.validate
GateConnectivityCriterion_validate(g, instructions) ==
    ValidateCircuitFrom(g, instructions, 0, <<>>)


\* The instructions of the circuits: the two directives, two-qubit gates in
\* both directions of a pair, a single-qubit gate, a single-qubit gate with a
\* control qubit, a three-qubit gate and a two-qubit gate with a control
\* qubit.
Instructions ==
    {Directive("StartVerbatimBox"), Directive("EndVerbatimBox"),
     GateInstruction("CZ", <<>>, <<0, 1>>), GateInstruction("CZ", <<>>, <<1, 0>>),
     GateInstruction("H", <<>>, <<2>>), GateInstruction("X", <<2>>, <<0>>),
     GateInstruction("CCNot", <<>>, <<0, 1, 2>>),
     GateInstruction("CZ", <<2>>, <<0, 1>>)}

Circuits == SeqsUpTo(Instructions, MaxInstr)

\* The supported-gate sets of an edge, and the dicts given to __init__.
CriterionGateSets == {{}, {"CZ"}, {"CPhaseShift"}}

CriterionItems == {<<e, s>> : e \in {<<0, 1>>, <<1, 2>>}, s \in CriterionGateSets}

CriterionDicts ==
    {<<>>} \cup {<<a>> : a \in CriterionItems}
    \cup {<<a, b>> : a \in {x \in CriterionItems : x[1] = <<0, 1>>},
                     b \in {x \in CriterionItems : x[1] = <<1, 2>>}}

\* The DiGraphs a caller gives the criterion: each of four edges is absent
\* or holds one of the supported-gate sets.
CallerEdges == <<<<0, 1>>, <<1, 0>>, <<1, 2>>, <<2, 1>>>>

RECURSIVE DiGraphsFrom(_)
DiGraphsFrom(i) ==
    IF i > Len(CallerEdges) THEN {EmptyGraph}
    ELSE LET rest == DiGraphsFrom(i + 1)
         IN  rest \cup {add_edge(g, CallerEdges[i][1], CallerEdges[i][2],
                                 [has |-> TRUE, gates |-> s]) :
                           g \in rest, s \in CriterionGateSets}

CallerDiGraphs == DiGraphsFrom(1)

\* The arguments of the direct calls of validate_instruction_connectivity.
ConnectivityArgs ==
    {[gate_name |-> "CZ", control |-> c, target |-> t] :
        c \in {<<>>, <<0>>, <<1>>}, t \in {<<0>>, <<1>>, <<0, 1>>, <<1, 0>>}}

NoChecked ==
    [op |-> "none", gate_name |-> "None", control |-> <<>>, target |-> <<>>,
     status |-> "none", error |-> NoCheckError, log |-> <<>>]

CheckIdle ==
    /\ criterion_graph = EmptyGraph
    /\ circuit = <<>>
    /\ checked = NoChecked


-----------------------------------------------------------------------------
(* TketCompilerPass (tket_compiler_pass.py).                               *)

\* The rewrite passes, as far as the pass needs them: tket_pass.apply(c)
\* rewrites the commands of the pytket circuit c in place.
TketPasses == {"RemoveRedundancies", "AutoRebase"}

\* RemoveRedundancies: adjacent pairs of the same self-inverse gate cancel.
RECURSIVE RemoveRedundancies(_)
RemoveRedundancies(cmds) ==
    IF \E i \in 1..(Len(cmds) - 1) : cmds[i] = cmds[i + 1]
    THEN LET i == CHOOSE j \in 1..(Len(cmds) - 1) :
                     /\ cmds[j] = cmds[j + 1]
                     /\ \A k \in 1..(j - 1) : cmds[k] # cmds[k + 1]
         IN  RemoveRedundancies(SubSeq(cmds, 1, i - 1) \o SubSeq(cmds, i + 2, Len(cmds)))
    ELSE cmds

\* AutoRebase to {H, CZ}: every CX becomes H CZ H.
RECURSIVE AutoRebase(_)
AutoRebase(cmds) ==
    IF cmds = <<>> THEN <<>>
    ELSE (IF Head(cmds) = "CX" THEN <<"H", "CZ", "H">> ELSE <<Head(cmds)>>)
            \o AutoRebase(Tail(cmds))

apply(tket_pass, cmds) ==
    IF tket_pass = "RemoveRedundancies" THEN RemoveRedundancies(cmds)
    ELSE AutoRebase(cmds)

\* The three representations spell a gate differently: a Circuit holds
\* instructions, an OpenQasmProgram source text, a pytket circuit commands.
RECURSIVE MapNames(_, _)
MapNames(f, s) ==
    IF s = <<>> THEN <<>> ELSE <<f[Head(s)]>> \o MapNames(f, Tail(s))

\* task_specification.to_ir("OPENQASM")
to_ir(instructions) ==
    MapNames([n \in {"H", "CNot", "CZ"} |->
                CASE n = "H" -> "h" [] n = "CNot" -> "cnot" [] OTHER -> "cz"],
             instructions)

\* Circuit.from_ir(open_qasm_program)
from_ir(source) ==
    MapNames([n \in {"h", "cnot", "cz"} |->
                CASE n = "h" -> "H" [] n = "cnot" -> "CNot" [] OTHER -> "CZ"],
             source)

\* Interpreter(PytketProgramContext()).build_circuit(source).circuit
build_circuit(source) ==
    MapNames([n \in {"h", "cnot", "cz"} |->
                CASE n = "h" -> "H" [] n = "cnot" -> "CX" [] OTHER -> "CZ"],
             source)

\* tket_to_qasm3(pytket_circuit)
tket_to_qasm3(cmds) ==
    MapNames([n \in {"H", "CX", "CZ"} |->
                CASE n = "H" -> "h" [] n = "CX" -> "cnot" [] OTHER -> "cz"],
             cmds)

\* A task specification: its type, its body (instructions or source text),
\* and for a pytket circuit the object it is (its commands are in the heap).
TaskTypes == {"Circuit", "OpenQasmProgram", "PytketCircuit"}

Task(type, body, ref) == [type |-> type, body |-> body, ref |-> ref]

NoTask == Task("None", <<>>, "None")

\* Mutant: the passes are applied from the last to the first.
RECURSIVE ApplyPassesBackwards(_, _, _, _, _)
ApplyPassesBackwards(passes, i, objects, ref, log) ==
    IF i > Len(passes) THEN [objects |-> objects, log |-> log]
    ELSE LET p == passes[Len(passes) + 1 - i]
         IN  ApplyPassesBackwards(passes, i + 1,
                [objects EXCEPT ![ref] = apply(p, @)], ref, Append(log, <<p, ref>>))

\* The loop of run for a pytket circuit, from the i-th pass on: each pass is
\* applied to the object ref.  log holds the applications made.
RECURSIVE ApplyPasses(_, _, _, _, _)
ApplyPasses(passes, i, objects, ref, log) ==
    IF i > Len(passes) THEN [objects |-> objects, log |-> log]
    ELSE ApplyPasses(passes, i + 1,
            [objects EXCEPT ![ref] = apply(passes[i], @)], ref,
            Append(log, <<passes[i], ref>>))

\* run, registered for PytketCircuit: the object given is returned.
run_pytket(passes, objects, task) ==
    LET r == ApplyPasses(passes, 1, objects, task.ref, <<>>)
    IN  [status |-> "returned", result |-> task, error |-> "None",
         objects |-> r.objects, log |-> r.log]

\* run, registered for OpenQasmProgram: the source is built into a new
\* pytket circuit ("built"), which is run and written back as source.
run_openqasm(passes, objects, task) ==
    LET pytket_circuit == Task("PytketCircuit", <<>>, "built")
        r == run_pytket(passes, [objects EXCEPT !["built"] = build_circuit(task.body)],
                        pytket_circuit)
    IN  [r EXCEPT !.result = Task("OpenQasmProgram", tket_to_qasm3(r.objects["built"]),
                                  "None")]

\* Mutant: the compiled program is returned as it is.
run_circuit_unconverted(passes, objects, task) ==
    run_openqasm(passes, objects, Task("OpenQasmProgram", to_ir(task.body), "None"))

\* run, registered for Circuit.
run_circuit(passes, objects, task) ==
    LET r == run_openqasm(passes, objects,
                          Task("OpenQasmProgram", to_ir(task.body), "None"))
    IN  [r EXCEPT !.result = Task("Circuit", from_ir(r.result.body), "None")]

\* TketCompilerPass.run, dispatched on the type of the task specification.
TketCompilerPass_run(passes, objects, task) ==
    CASE task.type = "Circuit" -> run_circuit(passes, objects, task)
      [] task.type = "OpenQasmProgram" -> run_openqasm(passes, objects, task)
      [] task.type = "PytketCircuit" -> run_pytket(passes, objects, task)
      [] OTHER -> [status |-> "raised", result |-> NoTask, error |-> "ValueError",
                   objects |-> objects, log |-> <<>>]

\* __init__: a pass that is no Iterable is wrapped in a list.
TketCompilerPass_init(arg) ==
    IF arg.tag = "pass" THEN <<arg.pass>> ELSE arg.passes

TketInitArgs ==
    {[tag |-> "pass", pass |-> p, passes |-> <<>>] : p \in TketPasses}
    \cup {[tag |-> "list", pass |-> "None", passes |-> s] :
            s \in SeqsUpTo(TketPasses, MaxPasses)}

\* The task specifications given to run: circuits and programs of at most
\* MaxGates gates, the caller's pytket circuit, and an analog program.
Tasks ==
    {Task("Circuit", s, "None") : s \in SeqsUpTo({"H", "CNot"}, MaxGates)}
    \cup {Task("OpenQasmProgram", s, "None") : s \in SeqsUpTo({"h", "cnot"}, MaxGates)}
    \cup {Task("PytketCircuit", <<>>, "caller"),
          Task("AnalogHamiltonianSimulation", <<>>, "None")}

PytketObjects == {"caller", "built"}

NoRan ==
    [op |-> "none", input |-> NoTask, status |-> "none", result |-> NoTask,
     error |-> "None", before |-> <<>>, log |-> <<>>]

TketIdle ==
    /\ tket_passes = <<>>
    /\ pytket = [o \in PytketObjects |-> <<>>]
    /\ ran = NoRan

-----------------------------------------------------------------------------
(* The analog constants builder (aws_emulation.py) and the device          *)
(* validators of analog programs (device_validators).  Quantities are      *)
(* integers in device units; an optional value is <<>> (None) or <<v>>.    *)

None == <<>>
Some(v) == <<v>>

\* paradigm.rydberg.rydbergLocal of a QuEra record, with a given
\* numberLocalDetuningSitesMax.
RydbergLocal(sites) ==
    [spacingRadialMin |-> 5, timeResolution |-> 1, timeDeltaMin |-> 10,
     detuningRange |-> <<0, 125>>, detuningSlewRateMax |-> 1256,
     numberLocalDetuningSitesMax |-> sites, siteCoefficientRange |-> <<0, 1>>]

\* The paradigm of a QuEra record with a given rydbergLocal.
QueraParadigm(rydbergLocal) ==
    [qubitCount |-> 256,
     lattice |-> [geometry |-> [numberSitesMax |-> 256, spacingRadialMin |-> 4,
                                spacingVerticalMin |-> 3, positionResolution |-> 1],
                  area |-> [width |-> 75, height |-> 76]],
     rydberg |-> [rydbergGlobal |->
                    [timeMin |-> 0, timeMax |-> 4000, timeResolution |-> 1,
                     timeDeltaMin |-> 50, rabiFrequencyRange |-> <<0, 15800>>,
                     rabiFrequencyResolution |-> 400,
                     rabiFrequencySlewRateMax |-> 250, phaseRange |-> <<-99, 99>>,
                     phaseResolution |-> 5, detuningRange |-> <<-125, 125>>,
                     detuningResolution |-> 2, detuningSlewRateMax |-> 2500],
                  rydbergLocal |-> rydbergLocal]]

\* The capability records: QuEra records without and with a local-Rydberg
\* block, and a record of another device.
AhsProperties ==
    {[family |-> "QuEra", paradigm |-> QueraParadigm(None)]}
    \cup {[family |-> "QuEra", paradigm |-> QueraParadigm(Some(RydbergLocal(n)))] :
            n \in 1..MaxSites}
    \cup {[family |-> "Other", paradigm |-> QueraParadigm(None)]}

LocalKeys ==
    {"LOCAL_MIN_DISTANCE_BETWEEN_SHIFTED_SITES", "LOCAL_TIME_PRECISION",
     "LOCAL_MIN_TIME_SEPARATION", "LOCAL_MAGNITUDE_SEQUENCE_VALUE_MIN",
     "LOCAL_MAGNITUDE_SEQUENCE_VALUE_MAX", "LOCAL_MAGNITUDE_SLOPE_MAX",
     "LOCAL_MAX_NONZERO_PATTERN_VALUES", "MAGNITUDE_PATTERN_VALUE_MIN",
     "MAGNITUDE_PATTERN_VALUE_MAX"}

GlobalKeys ==
    {"MAX_SITES", "MIN_DISTANCE", "MIN_ROW_DISTANCE", "SITE_PRECISION",
     "BOUNDING_BOX_SIZE_X", "BOUNDING_BOX_SIZE_Y", "MAX_FILLED_SITES", "MIN_TIME",
     "MAX_TIME", "GLOBAL_TIME_PRECISION", "GLOBAL_MIN_TIME_SEPARATION",
     "GLOBAL_AMPLITUDE_VALUE_MIN", "GLOBAL_AMPLITUDE_VALUE_MAX",
     "GLOBAL_AMPLITUDE_VALUE_PRECISION", "GLOBAL_AMPLITUDE_SLOPE_MAX",
     "GLOBAL_PHASE_VALUE_MIN", "GLOBAL_PHASE_VALUE_MAX",
     "GLOBAL_PHASE_VALUE_PRECISION", "GLOBAL_DETUNING_VALUE_MIN",
     "GLOBAL_DETUNING_VALUE_MAX", "GLOBAL_DETUNING_VALUE_PRECISION",
     "GLOBAL_DETUNING_SLOPE_MAX"}

ConstantKeys == GlobalKeys \cup LocalKeys \cup {"LOCAL_RYDBERG_CAPABILITIES"}

\* The entries of the capabilities dict that come from the lattice and from
\* rydbergGlobal.
GlobalCapabilities(paradigm) ==
    LET geometry == paradigm.lattice.geometry
        area == paradigm.lattice.area
        rydberg_global == paradigm.rydberg.rydbergGlobal
    IN  [k \in GlobalKeys |->
          CASE k = "MAX_SITES" -> geometry.numberSitesMax
            [] k = "MIN_DISTANCE" -> geometry.spacingRadialMin
            [] k = "MIN_ROW_DISTANCE" -> geometry.spacingVerticalMin
            [] k = "SITE_PRECISION" -> geometry.positionResolution
            [] k = "BOUNDING_BOX_SIZE_X" -> area.width
            [] k = "BOUNDING_BOX_SIZE_Y" -> area.height
            [] k = "MAX_FILLED_SITES" -> paradigm.qubitCount
            [] k = "MIN_TIME" -> rydberg_global.timeMin
            [] k = "MAX_TIME" -> rydberg_global.timeMax
            [] k = "GLOBAL_TIME_PRECISION" -> rydberg_global.timeResolution
            [] k = "GLOBAL_MIN_TIME_SEPARATION" -> rydberg_global.timeDeltaMin
            [] k = "GLOBAL_AMPLITUDE_VALUE_MIN" -> rydberg_global.rabiFrequencyRange[1]
            [] k = "GLOBAL_AMPLITUDE_VALUE_MAX" -> rydberg_global.rabiFrequencyRange[2]
            [] k = "GLOBAL_AMPLITUDE_VALUE_PRECISION" ->
                    rydberg_global.rabiFrequencyResolution
            [] k = "GLOBAL_AMPLITUDE_SLOPE_MAX" -> rydberg_global.rabiFrequencySlewRateMax
            [] k = "GLOBAL_PHASE_VALUE_MIN" -> rydberg_global.phaseRange[1]
            [] k = "GLOBAL_PHASE_VALUE_MAX" -> rydberg_global.phaseRange[2]
            [] k = "GLOBAL_PHASE_VALUE_PRECISION" -> rydberg_global.phaseResolution
            [] k = "GLOBAL_DETUNING_VALUE_MIN" -> rydberg_global.detuningRange[1]
            [] k = "GLOBAL_DETUNING_VALUE_MAX" -> rydberg_global.detuningRange[2]
            [] k = "GLOBAL_DETUNING_VALUE_PRECISION" -> rydberg_global.detuningResolution
            [] OTHER -> rydberg_global.detuningSlewRateMax]

\* The entries set under "if rydberg_local:" (True is 1).
LocalCapabilities(rydberg_local) ==
    [k \in LocalKeys \cup {"LOCAL_RYDBERG_CAPABILITIES"} |->
        CASE k = "LOCAL_RYDBERG_CAPABILITIES" -> 1
          [] k = "LOCAL_MIN_DISTANCE_BETWEEN_SHIFTED_SITES" ->
                rydberg_local.spacingRadialMin
          [] k = "LOCAL_TIME_PRECISION" -> rydberg_local.timeResolution
          [] k = "LOCAL_MIN_TIME_SEPARATION" -> rydberg_local.timeDeltaMin
          [] k = "LOCAL_MAGNITUDE_SEQUENCE_VALUE_MIN" -> rydberg_local.detuningRange[1]
          [] k = "LOCAL_MAGNITUDE_SEQUENCE_VALUE_MAX" -> rydberg_local.detuningRange[2]
          [] k = "LOCAL_MAGNITUDE_SLOPE_MAX" -> rydberg_local.detuningSlewRateMax
          [] k = "LOCAL_MAX_NONZERO_PATTERN_VALUES" ->
                rydberg_local.numberLocalDetuningSitesMax
          [] k = "MAGNITUDE_PATTERN_VALUE_MIN" -> rydberg_local.siteCoefficientRange[1]
          [] OTHER -> rydberg_local.siteCoefficientRange[2]]

\* DeviceCapabilitiesConstants.parse_obj(capabilities): a key the dict does
\* not hold gets its default, False for the flag and None for the others.
parse_obj(capabilities) ==
    [k \in ConstantKeys |->
        IF k \in DOMAIN capabilities THEN Some(capabilities[k])
        ELSE IF k = "LOCAL_RYDBERG_CAPABILITIES" THEN Some(0) ELSE None]

\* Mutant: the flag is set, and the site limit is left out.
ahs_capabilities_without_site_limit(props) ==
    IF props.family # "QuEra"
    THEN [status |-> "raised", error |-> "NotImplementedError",
          fields |-> [k \in ConstantKeys |-> None]]
    ELSE LET rydberg_local == props.paradigm.rydberg.rydbergLocal
             local == IF rydberg_local # None
                      THEN [k \in (LocalKeys \cup {"LOCAL_RYDBERG_CAPABILITIES"})
                                    \ {"LOCAL_MAX_NONZERO_PATTERN_VALUES"} |->
                                LocalCapabilities(rydberg_local[1])[k]]
                      ELSE <<>>
         IN  [status |-> "built", error |-> "None",
              fields |-> parse_obj(local @@ GlobalCapabilities(props.paradigm))]

\* _get_ahs_device_capabilities, dispatched on the capability type.
_get_ahs_device_capabilities(props) ==
    IF props.family # "QuEra"
    THEN [status |-> "raised", error |-> "NotImplementedError",
          fields |-> [k \in ConstantKeys |-> None]]
    ELSE LET rydberg_local == props.paradigm.rydberg.rydbergLocal
             local == IF rydberg_local # None
                      THEN LocalCapabilities(rydberg_local[1]) ELSE <<>>
         IN  [status |-> "built", error |-> "None",
              fields |-> parse_obj(local @@ GlobalCapabilities(props.paradigm))]

NoConstants ==
    [status |-> "none", error |-> "None", fields |-> [k \in ConstantKeys |-> None]]

\* capabilities.LOCAL_RYDBERG_CAPABILITIES, as a truth value.
LocalRydbergFlag(c) == c.fields["LOCAL_RYDBERG_CAPABILITIES"] = Some(1)


NoAhsError == [type |-> "None", by |-> "None", cites |-> <<>>]
\* A ValueError raised by a check, with the numbers its message cites.
AhsError(by, cites) == [type |-> "ValueError", by |-> by, cites |-> cites]

\* A check of a validator that is not worked out here: program.other_failure
\* names the first such check that the rest of the data makes fail.
OtherCheck(name, program) ==
    IF program.other_failure = name THEN AhsError(name, <<>>) ELSE NoAhsError

\* The pre-root validators of a model run in order, the inherited ones first,
\* and the first error ends the validation.
RECURSIVE FirstError(_)
FirstError(results) ==
    IF results = <<>> THEN NoAhsError
    ELSE IF Head(results) # NoAhsError THEN Head(results)
    ELSE FirstError(Tail(results))

\* Mutant: the count of blocks alone decides.
max_zero_local_detuning_whatever_flag(flag, program) ==
    LET local_detuning == IF program.localDetuning = None THEN 0
                          ELSE program.localDetuning[1]
    IN  IF local_detuning > 0
        THEN AhsError("max_zero_local_detuning", <<local_detuning>>)
        ELSE NoAhsError

\* DeviceHamiltonianValidator.max_zero_local_detuning; local_detuning is the
\* length of values.get("localDetuning", []).
max_zero_local_detuning(flag, program) ==
    LET local_detuning == IF program.localDetuning = None THEN 0
                          ELSE program.localDetuning[1]
    IN  IF ~flag /\ local_detuning > 0
        THEN AhsError("max_zero_local_detuning", <<local_detuning>>)
        ELSE NoAhsError

\* Mutant: the first value alone decides.
start_value_only(by, time_series_values) ==
    IF time_series_values # <<>>
    THEN LET start_value == time_series_values[1]
             end_value == time_series_values[Len(time_series_values)]
         IN  IF start_value # 0
             THEN AhsError(by, <<start_value, end_value>>) ELSE NoAhsError
    ELSE NoAhsError

\* The body shared by amplitude_start_and_end_values and
\* local_detuning_start_and_end_values.
start_and_end_values(by, time_series_values) ==
    IF time_series_values # <<>>
    THEN LET start_value == time_series_values[1]
             end_value == time_series_values[Len(time_series_values)]
         IN  IF start_value # 0 \/ end_value # 0
             THEN AhsError(by, <<start_value, end_value>>) ELSE NoAhsError
    ELSE NoAhsError

amplitude_start_and_end_values(program) ==
    start_and_end_values("amplitude_start_and_end_values", program.values)

local_detuning_start_and_end_values(program) ==
    start_and_end_values("local_detuning_start_and_end_values", program.values)

check_local_rydberg_capabilities(capabilities) ==
    IF ~LocalRydbergFlag(capabilities)
    THEN AhsError("check_local_rydberg_capabilities", <<>>) ELSE NoAhsError

RECURSIVE CountNonzero(_)
CountNonzero(pattern) ==
    IF pattern = <<>> THEN 0
    ELSE (IF Head(pattern) # 0 THEN 1 ELSE 0) + CountNonzero(Tail(pattern))

\* Comparing with a limit of None is a TypeError, which the model reports
\* like the ValueError.
magnitude_pattern_have_not_too_many_nonzeros(capabilities, program) ==
    LET num_nonzeros == CountNonzero(program.pattern)
        limit == capabilities.fields["LOCAL_MAX_NONZERO_PATTERN_VALUES"]
    IN  IF limit = None
        THEN [type |-> "TypeError",
              by |-> "magnitude_pattern_have_not_too_many_nonzeros", cites |-> <<>>]
        ELSE IF num_nonzeros > limit[1]
        THEN AhsError("magnitude_pattern_have_not_too_many_nonzeros",
                      <<num_nonzeros, limit[1]>>)
        ELSE NoAhsError

\* The checks of DeviceDrivingFieldValidator after the boundary check, in
\* the order of their definition.
DrivingFieldLaterChecks ==
    <<"amplitude_time_precision_is_correct", "amplitude_timepoint_not_too_close",
      "amplitude_value_precision_is_correct", "amplitude_slopes_not_too_steep",
      "phase_time_precision_is_correct", "phase_timepoint_not_too_close",
      "phase_values_start_with_0", "phase_values_within_range",
      "phase_value_precision_is_correct", "detuning_time_precision_is_correct",
      "detuning_timepoint_not_too_close", "detuning_slopes_not_too_steep">>

\* The checks of DeviceLocalDetuningValidator between the pattern check and
\* the boundary check.
LocalDetuningMiddleChecks ==
    <<"magnitude_time_precision_is_correct", "magnitude_timepoint_not_too_close",
      "magnitude_slopes_not_too_steep">>

OtherChecks(names, program) ==
    [i \in 1..Len(names) |-> OtherCheck(names[i], program)]

\* DeviceHamiltonianValidator(**hamiltonian, LOCAL_RYDBERG_CAPABILITIES=flag).
DeviceHamiltonianValidator(flag, program) ==
    FirstError(<<OtherCheck("inherited", program),
                 max_zero_local_detuning(flag, program)>>)

\* A series of the program, empty when the program does not hold it.
SeriesOf(program, name) == IF name \in DOMAIN program THEN program[name] ELSE <<>>

\* validate_value_precision: every value is a multiple of max_precision.
validate_value_precision(values, max_precision, by) ==
    IF \E idx \in 1..Len(values) : values[idx] % max_precision # 0
    THEN LET idx == CHOOSE i \in 1..Len(values) :
                        /\ values[i] % max_precision # 0
                        /\ \A j \in 1..(i - 1) : values[j] % max_precision = 0
         IN  AhsError(by, <<idx - 1, values[idx], max_precision>>)
    ELSE NoAhsError

amplitude_value_precision_is_correct(capabilities, program) ==
    validate_value_precision(program.values,
        capabilities.fields["GLOBAL_AMPLITUDE_VALUE_PRECISION"][1],
        "amplitude_value_precision_is_correct")

phase_value_precision_is_correct(capabilities, program) ==
    validate_value_precision(SeriesOf(program, "phase_values"),
        capabilities.fields["GLOBAL_PHASE_VALUE_PRECISION"][1],
        "phase_value_precision_is_correct")

\* The checks of DeviceDrivingFieldValidator that are worked out.
ValuePrecisionChecks ==
    {"amplitude_value_precision_is_correct", "phase_value_precision_is_correct"}

\* A check of DeviceDrivingFieldValidator that follows the boundary check.
DrivingFieldCheck(name, capabilities, program) ==
    IF name = "amplitude_value_precision_is_correct"
    THEN amplitude_value_precision_is_correct(capabilities, program)
    ELSE IF name = "phase_value_precision_is_correct"
    THEN phase_value_precision_is_correct(capabilities, program)
    ELSE OtherCheck(name, program)

\* DeviceDrivingFieldValidator(capabilities=capabilities, **driving_field).
DeviceDrivingFieldValidator(capabilities, program) ==
    FirstError(<<OtherCheck("inherited", program),
                 amplitude_start_and_end_values(program)>>
               \o [i \in 1..Len(DrivingFieldLaterChecks) |->
                        DrivingFieldCheck(DrivingFieldLaterChecks[i], capabilities,
                                          program)])

\* DeviceLocalDetuningValidator(capabilities=capabilities, **local_detuning).
DeviceLocalDetuningValidator(capabilities, program) ==
    FirstError(<<OtherCheck("inherited", program),
                 check_local_rydberg_capabilities(capabilities),
                 magnitude_pattern_have_not_too_many_nonzeros(capabilities, program)>>
               \o OtherChecks(LocalDetuningMiddleChecks, program)
               \o <<local_detuning_start_and_end_values(program)>>)

\* Index set of a sequence of names, as a set of names.
NamesOf(names) == {names[i] : i \in 1..Len(names)}

\* _y_distance: the y-separation of two sites (x, y).
_y_distance(site_1, site_2) ==
    IF site_1[2] >= site_2[2] THEN site_1[2] - site_2[2] ELSE site_2[2] - site_1[2]

\* Insert a site behind every site of a list sorted by y whose y is not larger.
RECURSIVE InsertByY(_, _)
InsertByY(site, sorted_sites) ==
    IF sorted_sites = <<>> THEN <<site>>
    ELSE IF Head(sorted_sites)[2] <= site[2]
    THEN <<Head(sorted_sites)>> \o InsertByY(site, Tail(sorted_sites))
    ELSE <<site>> \o sorted_sites

\* sorted(sites, key=lambda xy: xy[1]); the sort is stable.
RECURSIVE SortedByY(_)
SortedByY(sites) ==
    IF sites = <<>> THEN <<>>
    ELSE InsertByY(sites[Len(sites)], SortedByY(SubSeq(sites, 1, Len(sites) - 1)))

\* min_allowed_distance of sites_in_rows.
MinAllowedDistance(capabilities) ==
    IF LocalRydbergFlag(capabilities) THEN LocalRowDistance
    ELSE capabilities.fields["MIN_ROW_DISTANCE"][1]

\* The loop of sites_in_rows over zip(sorted_sites[:-1], sorted_sites[1:]).
RECURSIVE RowsFrom(_, _, _)
RowsFrom(sorted_sites, i, min_allowed_distance) ==
    IF i >= Len(sorted_sites) THEN NoAhsError
    ELSE LET row_distance == _y_distance(sorted_sites[i], sorted_sites[i + 1])
         IN  IF row_distance = 0
             THEN RowsFrom(sorted_sites, i + 1, min_allowed_distance)
             ELSE IF row_distance < min_allowed_distance
             THEN AhsError("sites_in_rows", <<row_distance, min_allowed_distance>>)
             ELSE RowsFrom(sorted_sites, i + 1, min_allowed_distance)

\* Mutant: the neighbours of the list as given are compared.
sites_in_rows_unsorted(capabilities, program) ==
    RowsFrom(program.sites, 1, MinAllowedDistance(capabilities))

\* DeviceAtomArrangementValidator.sites_in_rows.
sites_in_rows(capabilities, program) ==
    RowsFrom(SortedByY(program.sites), 1, MinAllowedDistance(capabilities))

sites_not_empty(program) ==
    IF program.sites = <<>> THEN AhsError("sites_not_empty", <<>>) ELSE NoAhsError

sites_defined_with_right_precision(capabilities, program) ==
    LET SITE_PRECISION == capabilities.fields["SITE_PRECISION"][1]
    IN  IF \E idx \in 1..Len(program.sites) :
                \E c \in 1..2 : program.sites[idx][c] % SITE_PRECISION # 0
        THEN AhsError("sites_defined_with_right_precision", <<SITE_PRECISION>>)
        ELSE NoAhsError

sites_not_too_many(capabilities, program) ==
    LET num_sites == Len(program.sites)
        MAX_SITES == capabilities.fields["MAX_SITES"][1]
    IN  IF num_sites > MAX_SITES
        THEN AhsError("sites_not_too_many", <<num_sites, MAX_SITES>>)
        ELSE NoAhsError

\* DeviceAtomArrangementValidator(capabilities=capabilities, **register).
DeviceAtomArrangementValidator(capabilities, program) ==
    FirstError(<<OtherCheck("inherited", program),
                 sites_not_empty(program),
                 sites_defined_with_right_precision(capabilities, program),
                 sites_not_too_many(capabilities, program),
                 sites_in_rows(capabilities, program),
                 OtherCheck("atom_number_limit", program)>>)

\* The registers given to the atom-arrangement validator: sites (0, y).
ArrangementPrograms ==
    {[kind |-> "atom_arrangement", sites |-> s, other_failure |-> f] :
        s \in SeqsUpTo({<<0, y>> : y \in 0..MaxY}, MaxAtoms),
        f \in {"none", "inherited", "atom_number_limit"}}

\* The parts of an analog program given to the validators.
AhsProgram(kind, values, pattern, localDetuning, other_failure) ==
    [kind |-> kind, values |-> values, pattern |-> pattern,
     localDetuning |-> localDetuning, other_failure |-> other_failure]

HamiltonianPrograms ==
    {AhsProgram("hamiltonian", <<>>, <<>>, n, f) :
        n \in {None} \cup {Some(k) : k \in 0..MaxBlocks}, f \in {"none", "inherited"}}

DrivingFieldPrograms ==
    {AhsProgram("driving_field", v, <<>>, None, f) :
        v \in SeqsUpTo({0, 1}, MaxPoints),
        f \in {"none", "inherited"}
                \cup (NamesOf(DrivingFieldLaterChecks) \ ValuePrecisionChecks)}

\* Driving fields with an amplitude, a phase and a detuning series whose
\* values are 0, 1 or the value precision of the series.
PrecisionPrograms ==
    {[kind |-> "driving_field", values |-> <<0, a, 0>>, phase_values |-> <<0, p>>,
      detuning_values |-> <<d, d>>, other_failure |-> f] :
        a \in {0, 1, 400}, p \in {0, 1, 5}, d \in {0, 1, 2},
        f \in {"none", "inherited"}}

LocalDetuningPrograms ==
    {AhsProgram("local_detuning", v, p, None, f) :
        v \in SeqsUpTo({0, 1}, MaxPoints), p \in SeqsUpTo({0, 1}, MaxSites),
        f \in {"none", "inherited"} \cup NamesOf(LocalDetuningMiddleChecks)}

AhsPrograms ==
    HamiltonianPrograms \cup DrivingFieldPrograms \cup LocalDetuningPrograms
        \cup ArrangementPrograms \cup PrecisionPrograms

NoAhsChecked == [validator |-> "none", status |-> "none", error |-> NoAhsError]

AhsChecked(validator, error) ==
    [validator |-> validator,
     status |-> IF error = NoAhsError THEN "returned" ELSE "raised",
     error |-> error]

AhsIdle ==
    /\ ahs_properties = [family |-> "Other", paradigm |-> QueraParadigm(None)]
    /\ constants = NoConstants
    /\ ahs_program = AhsProgram("hamiltonian", <<>>, <<>>, None, "none")
    /\ ahs_checked = NoAhsChecked

-----------------------------------------------------------------------------
(* The analog noise model (_ahs_noise_model of aws_emulation.py) and the   *)
(* noise pass AhsNoise (ahs_noisy_pass.py).  Probabilities are in percent. *)
(* A random draw is a choice among the values the draw can give.           *)

\* The paradigm of a QuEra record with the given typical errors.
NoiseParadigm(filling, vacancy, false_positive, false_negative, ground_prep) ==
    [performance |->
        [lattice |-> [sitePositionError |-> 1,
                      fillingErrorTypical |-> filling,
                      vacancyErrorTypical |-> vacancy,
                      atomDetectionErrorFalsePositiveTypical |-> false_positive,
                      atomDetectionErrorFalseNegativeTypical |-> false_negative],
         rydberg |-> [rydbergGlobal |->
                        [groundPrepError |-> ground_prep,
                         rabiAmplitudeRampCorrection |->
                            <<[rampTime |-> 1, rabiCorrection |-> 1],
                              [rampTime |-> 2, rabiCorrection |-> 1]>>,
                         rabiFrequencyGlobalErrorRel |-> 2,
                         detuningError |-> 3,
                         detuningInhomogeneity |-> 4]]],
     rydberg |-> [rydbergGlobal |-> [rabiFrequencyRange |-> <<0, 15800>>]]]

\* The capability records given to the noise model: every error 0 or 100
\* percent without ground-preparation error, ground-preparation error alone,
\* every error 50 percent, and a record of another device.
NoiseProperties ==
    {[family |-> "QuEra", paradigm |-> NoiseParadigm(f, v, p, n, 0)] :
        f \in {0, 100}, v \in {0, 100}, p \in {0, 100}, n \in {0, 100}}
    \cup {[family |-> "QuEra", paradigm |-> NoiseParadigm(0, 0, 0, 0, 100)],
          [family |-> "QuEra", paradigm |-> NoiseParadigm(50, 50, 50, 50, 50)],
          [family |-> "Other", paradigm |-> NoiseParadigm(0, 0, 0, 0, 0)]}

AhsNoiseData(site_position_error, filling_error, vacancy_error, ground_prep_error, rabi_amplitude_ramp_correction, rabi_frequency_error_rel, rabi_amplitude_max, detuning_error, detuning_inhomogeneity, atom_detection_error_false_positive, atom_detection_error_false_negative) ==
    [site_position_error |-> site_position_error,
     filling_error |-> filling_error,
     vacancy_error |-> vacancy_error,
     ground_prep_error |-> ground_prep_error,
     rabi_amplitude_ramp_correction |-> rabi_amplitude_ramp_correction,
     rabi_frequency_error_rel |-> rabi_frequency_error_rel,
     rabi_amplitude_max |-> rabi_amplitude_max,
     detuning_error |-> detuning_error,
     detuning_inhomogeneity |-> detuning_inhomogeneity,
     atom_detection_error_false_positive |-> atom_detection_error_false_positive,
     atom_detection_error_false_negative |-> atom_detection_error_false_negative]

NoNoiseData ==
    [status |-> "none", error |-> "None",
     data |-> AhsNoiseData(0, 0, 0, 0, <<>>, 0, 0, 0, 0, 0, 0)]

\* _ahs_noise_model, dispatched on the capability type.
_ahs_noise_model(props) ==
    IF props.family # "QuEra"
    THEN [NoNoiseData EXCEPT !.status = "raised", !.error = "NotImplementedError"]
    ELSE LET capabilities == props.paradigm
             performance == capabilities.performance
             rydbergGlobal == performance.rydberg.rydbergGlobal
             rabiFrequencyRange == capabilities.rydberg.rydbergGlobal.rabiFrequencyRange
         IN  [status |-> "built", error |-> "None",
              data |-> AhsNoiseData(
                  performance.lattice.sitePositionError,
                  performance.lattice.vacancyErrorTypical,
                  performance.lattice.vacancyErrorTypical,
                  rydbergGlobal.groundPrepError,
                  rydbergGlobal.rabiAmplitudeRampCorrection,
                  rydbergGlobal.rabiFrequencyGlobalErrorRel,
                  rabiFrequencyRange[Len(rabiFrequencyRange)],
                  rydbergGlobal.detuningError,
                  rydbergGlobal.detuningInhomogeneity,
                  performance.lattice.atomDetectionErrorFalsePositiveTypical,
                  performance.lattice.atomDetectionErrorFalseNegativeTypical)]

\* np.random.binomial(1, p): the values a draw can give.
Binomial(p) == IF p = 0 THEN {0} ELSE IF p = 100 THEN {1} ELSE {0, 1}

\* _apply_binomial_noise: the arrays it can return.
RECURSIVE _apply_binomial_noise(_, _, _)
_apply_binomial_noise(arr, binomial_probability_p01, binomial_probability_p10) ==
    IF arr = <<>> THEN {<<>>}
    ELSE LET val == Head(arr)
             noisy_vals == IF val = 1
                      THEN {1 - b : b \in Binomial(binomial_probability_p10)}
                      ELSE Binomial(binomial_probability_p01)
         IN  {<<n>> \o rest : n \in noisy_vals,
                rest \in _apply_binomial_noise(Tail(arr), binomial_probability_p01,
                                               binomial_probability_p10)}

\* _apply_lattice_initialization_errors: the results it can return; first is
\* erroneous_filling before it is overwritten at line 83.  A site keeps its
\* index, its position error is not modelled.
_apply_lattice_initialization_errors(noise_data, program) ==
    LET filling == program.filling
        erroneous_sites == program.sites
    IN  UNION {
          {[sites |-> erroneous_sites, filling |-> erroneous_filling,
            pre_seq |-> pre_seq, first |-> first] :
              pre_seq \in _apply_binomial_noise(first,
                            noise_data.atom_detection_error_false_negative,
                            noise_data.atom_detection_error_false_positive),
              erroneous_filling \in _apply_binomial_noise(first, 0,
                            noise_data.ground_prep_error)} :
          first \in _apply_binomial_noise(filling, noise_data.filling_error,
                                          noise_data.vacancy_error)}

\* Whether point k of np.linspace(0, last, steps) lies in [t1, t2].
InSegment(t1, t2, k, last, steps) ==
    IF steps = 1 THEN t1 <= 0 /\ 0 <= t2
    ELSE t1 * (steps - 1) <= last * k /\ last * k <= t2 * (steps - 1)

\* The number of values the loops of _apply_amplitude_errors append for the
\* segments ind, ind + 1, ...: one for every grid point of every segment.
RECURSIVE AppendedFrom(_, _, _)
AppendedFrom(amplitude_times, ind, steps) ==
    IF ind > Len(amplitude_times) THEN 0
    ELSE LET t1 == amplitude_times[ind - 1]
             t2 == amplitude_times[ind]
             last == amplitude_times[Len(amplitude_times)]
         IN  Cardinality({k \in 0..(steps - 1) : InSegment(t1, t2, k, last, steps)})
                + AppendedFrom(amplitude_times, ind + 1, steps)

NoNoiseError == "None"

\* TimeSeries.from_lists on lists of the given lengths.
from_lists(times, values) ==
    IF times # values
    THEN [error |-> "ValueError", times |-> 0, values |-> 0]
    ELSE [error |-> NoNoiseError, times |-> times, values |-> values]

\* _apply_amplitude_errors: the lengths of the series it returns.
_apply_amplitude_errors(amplitude_times, steps) ==
    LET noisy_amplitude_times == steps
        noisy_amplitude_values == AppendedFrom(amplitude_times, 2, steps)
    IN  from_lists(noisy_amplitude_times, noisy_amplitude_values)

\* _apply_detuning_errors: the lengths of the series it returns and of the
\* pattern of the local detuning; np.interp gives a value for every point.
_apply_detuning_errors(detuning_times, fillings, steps) ==
    LET noisy_detuning_times == steps
        noisy_detuning_values == steps
    IN  [noisy_detuning |-> from_lists(noisy_detuning_times, noisy_detuning_values),
         local_detuning |-> [time_series |-> from_lists(noisy_detuning_times,
                                                       noisy_detuning_times),
                             pattern |-> Len(fillings)]]

NoNoisy ==
    [status |-> "none", error |-> NoNoiseError, sites |-> <<>>, filling |-> <<>>,
     first |-> <<>>, pre_seq |-> <<>>,
     amplitude |-> from_lists(0, 0), detuning |-> from_lists(0, 0)]

\* The register built by the loop of _apply_noise_model over
\* zip(sites, fillings): the sites and the filling of each.
RECURSIVE RegisterOf(_, _)
RegisterOf(sites, fillings) ==
    IF sites = <<>> \/ fillings = <<>> THEN <<>>
    ELSE <<[site |-> Head(sites), filled |-> IF Head(fillings) = 1 THEN 1 ELSE 0]>>
            \o RegisterOf(Tail(sites), Tail(fillings))

\* AhsNoise._apply_noise_model for an AnalogHamiltonianSimulation: the
\* outcomes a run can have.
_apply_noise_model(noise_data, program, steps) ==
    LET detuning == _apply_detuning_errors(program.detuning_times, program.filling,
                                           steps)
        noisy_amplitude == _apply_amplitude_errors(program.amplitude_times, steps)
    IN  {IF noisy_amplitude.error # NoNoiseError
         THEN [NoNoisy EXCEPT !.status = "raised", !.error = noisy_amplitude.error]
         ELSE LET register == RegisterOf(lattice.sites, lattice.filling)
              IN  [status |-> "returned", error |-> NoNoiseError,
                   sites |-> [i \in 1..Len(register) |-> register[i].site],
                   filling |-> [i \in 1..Len(register) |-> register[i].filled],
                   first |-> lattice.first, pre_seq |-> lattice.pre_seq,
                   amplitude |-> noisy_amplitude,
                   detuning |-> detuning.noisy_detuning] :
            lattice \in _apply_lattice_initialization_errors(noise_data, program)}

\* Strictly increasing time points that start at 0 and end at most at
\* MaxTime, two or more.
RECURSIVE TimesFrom(_)
TimesFrom(t) ==
    {<<t>>} \cup UNION {{<<t>> \o rest : rest \in TimesFrom(u)} : u \in (t + 1)..MaxTime}

TimePoints == TimesFrom(0) \ {<<0>>}

NoiseProgram(filling, amplitude_times, detuning_times, steps) ==
    [sites |-> [i \in 1..Len(filling) |-> i], filling |-> filling,
     amplitude_times |-> amplitude_times, detuning_times |-> detuning_times,
     steps |-> steps]

\* The programs given to the noise pass: every filling with one pair of
\* series, and every pair of series and resolution with one filling.
NoisePrograms ==
    {NoiseProgram(f, <<0, MaxTime>>, <<0, MaxTime>>, MaxSteps) :
        f \in SeqsUpTo({0, 1}, MaxAtoms)}
    \cup {NoiseProgram(<<1, 0>>, a, <<0, d>>, s) :
            a \in TimePoints, d \in 1..MaxTime, s \in 1..MaxSteps}

NoiseIdle ==
    /\ noise_properties = [family |-> "Other", paradigm |-> NoiseParadigm(0, 0, 0, 0, 0)]
    /\ noise_model = NoNoiseData
    /\ noise_program = NoiseProgram(<<>>, <<0, MaxTime>>, <<0, MaxTime>>, MaxSteps)
    /\ noisy = NoNoisy

-----------------------------------------------------------------------------
(* The Rz-virtualization pass (virtualize_rz.py).  A circuit is the list   *)
(* of its commands, as circ.get_commands() gives them; angles are integers. *)

ALLOWED_GATES == {"CZ", "Rz", "PhasedX", "Barrier", "Measure"}

Command(type, params, args) == [type |-> type, params |-> params, args |-> args]

NoVirtualized == [status |-> "none", error |-> "None", circuit |-> <<>>]

\* phase_per_qubit[qubit] of a defaultdict(int) kept as a function over the
\* qubits it has entries for.
PhaseOf(phase_per_qubit, qubit) ==
    IF qubit \in DOMAIN phase_per_qubit THEN phase_per_qubit[qubit] ELSE 0

\* Mutant: a PhasedX gate takes the phase and the phase starts again from 0.
RECURSIVE VirtualizeResetting(_, _, _, _)
VirtualizeResetting(commands, i, phase_per_qubit, new_circ) ==
    IF i > Len(commands)
    THEN [status |-> "returned", error |-> "None", circuit |-> new_circ]
    ELSE LET command == commands[i]
         IN  IF command.type = "Rz"
             THEN LET prev_phase == PhaseOf(phase_per_qubit, command.args[1])
                      new_phase == prev_phase + command.params[1]
                  IN  VirtualizeResetting(commands, i + 1,
                            (command.args[1] :> new_phase) @@ phase_per_qubit, new_circ)
             ELSE IF command.type = "PhasedX"
             THEN LET qubits == command.args
                      alpha == command.params[1]
                      beta == command.params[2] + PhaseOf(phase_per_qubit, qubits[1])
                  IN  VirtualizeResetting(commands, i + 1,
                            (qubits[1] :> 0) @@ phase_per_qubit,
                            Append(new_circ, Command(command.type, <<alpha, beta>>, qubits)))
             ELSE IF command.type = "Barrier"
             THEN VirtualizeResetting(commands, i + 1, phase_per_qubit,
                        Append(new_circ, Command("Barrier", command.params, command.args)))
             ELSE IF command.type \notin ALLOWED_GATES
             THEN [status |-> "raised", error |-> "ValueError", circuit |-> <<>>]
             ELSE VirtualizeResetting(commands, i + 1, phase_per_qubit,
                        Append(new_circ, command))

\* The loop of _virtualize_rz from command i on.
RECURSIVE VirtualizeFrom(_, _, _, _)
VirtualizeFrom(commands, i, phase_per_qubit, new_circ) ==
    IF i > Len(commands)
    THEN [status |-> "returned", error |-> "None", circuit |-> new_circ]
    ELSE LET command == commands[i]
         IN  IF command.type = "Rz"
             THEN LET prev_phase == PhaseOf(phase_per_qubit, command.args[1])
                      new_phase == prev_phase + command.params[1]
                  IN  VirtualizeFrom(commands, i + 1,
                            (command.args[1] :> new_phase) @@ phase_per_qubit, new_circ)
             ELSE IF command.type = "PhasedX"
             THEN LET qubits == command.args
                      alpha == command.params[1]
                      beta == command.params[2] + PhaseOf(phase_per_qubit, qubits[1])
                  IN  VirtualizeFrom(commands, i + 1, phase_per_qubit,
                            Append(new_circ, Command(command.type, <<alpha, beta>>, qubits)))
             ELSE IF command.type = "Barrier"
             THEN VirtualizeFrom(commands, i + 1, phase_per_qubit,
                        Append(new_circ, Command("Barrier", command.params, command.args)))
             ELSE IF command.type \notin ALLOWED_GATES
             THEN [status |-> "raised", error |-> "ValueError", circuit |-> <<>>]
             ELSE VirtualizeFrom(commands, i + 1, phase_per_qubit,
                        Append(new_circ, command))

\* _initialize_circ_copy: a circuit with the qubits, bits and phase of circ
\* and no command.
_initialize_circ_copy(circ) == <<>>

_virtualize_rz(circ) == VirtualizeFrom(circ, 1, <<>>, _initialize_circ_copy(circ))

\* The commands of the circuits given to the pass, on qubits 0 and 1: the
\* allowed operations and H.
RzCommands ==
    {Command("Rz", <<a>>, <<q>>) : a \in 1..MaxAngle, q \in {0, 1}}
    \cup {Command("PhasedX", <<1, b>>, <<q>>) : b \in 0..MaxAngle, q \in {0, 1}}
    \cup {Command("CZ", <<>>, <<0, 1>>), Command("Barrier", <<>>, <<0, 1>>),
          Command("Measure", <<>>, <<0>>), Command("H", <<>>, <<0>>)}

RzCircuits == SeqsUpTo(RzCommands, MaxCommands)

RzIdle ==
    /\ rz_circuit = <<>>
    /\ virtualized = NoVirtualized

PassIdle == CheckIdle /\ TketIdle /\ AhsIdle /\ NoiseIdle /\ RzIdle

NoBuilt == [op |-> "none", status |-> "none", graph |-> EmptyGraph]
NoNames == [tag |-> "none", names |-> <<>>]

\* The values the variables of a part have in the specifications of the
\* other parts.
OrchIdle ==
    /\ callerInit = <<>>
    /\ heap = [l \in ListIds |-> <<>>]
    /\ emuRef = [e \in Emulators |-> e]
    /\ added = [l \in ListIds |-> <<>>]
    /\ call = NoCall

GraphIdle ==
    /\ properties = [family |-> "Other", twoQubitProperties |-> EmptyTable,
                     nativeGateSet |-> NativeGateSet("Other")]
    /\ connectivity_graph = EmptyGraph
    /\ built = NoBuilt

TranslateIdle ==
    /\ gate_name = NoNames
    /\ translated = NoNames

-----------------------------------------------------------------------------
(* The orchestrator's state machine.                                       *)

TotalLen == Len(heap["caller"]) + Len(heap["e1"]) + Len(heap["e2"])

\* The list of emulator e.
ListOf(e) == heap[emuRef[e]]

\* The state after the caller made a list and constructed both emulators,
\* each from that list or with no argument.
Init ==
    /\ callerInit \in SeqsUpTo(Passes, MaxElems)
    /\ heap = [l \in ListIds |-> IF l = "caller" THEN callerInit ELSE <<>>]
    /\ emuRef \in {[e \in Emulators |-> BaseEmulator_init(e, a[e])] :
                      a \in [Emulators -> {"None", "caller"}]}
    /\ added = [l \in ListIds |-> <<>>]
    /\ call = NoCall
    /\ GraphIdle
    /\ TranslateIdle
    /\ PassIdle

\* e.run_passes(p)
RunPasses(e, p) ==
    /\ LET r == run_passes(ListOf(e), p)
       IN  call' = [NoCall EXCEPT !.op = "run_passes", !.emu = e, !.input = p,
                        !.status = r.status, !.result = r.result,
                        !.error = r.error, !.log = r.log]
    /\ UNCHANGED <<heap, emuRef, callerInit, added, graphVars, translateVars, passVars>>

\* e.validate(p)
Validate(e, p) ==
    /\ LET r == validate(ListOf(e), p)
       IN  call' = [NoCall EXCEPT !.op = "validate", !.emu = e, !.input = p,
                        !.status = r.status, !.result = r.result,
                        !.error = r.error, !.log = r.log]
    /\ UNCHANGED <<heap, emuRef, callerInit, added, graphVars, translateVars, passVars>>

\* e.add_pass(arg)
AddPass(e, arg) ==
    /\ TotalLen + Len(arg.items) <= MaxElems
    /\ LET r == add_pass(ListOf(e), arg)
           l == emuRef[e]
       IN  /\ heap' = [heap EXCEPT ![l] = r.list]
           /\ added' = [added EXCEPT
                          ![l] = IF r.status = "returned" THEN @ \o arg.items ELSE @]
           /\ call' = [NoCall EXCEPT !.op = "add_pass", !.emu = e, !.arg = arg,
                           !.status = r.status,
                           !.returned = IF r.status = "returned" THEN e ELSE "",
                           !.error = r.error]
    /\ UNCHANGED <<emuRef, callerInit, graphVars, translateVars, passVars>>

Next ==
    \/ \E e \in Emulators, p \in Programs : RunPasses(e, p)
    \/ \E e \in Emulators, p \in Programs : Validate(e, p)
    \/ \E e \in Emulators, arg \in AddArgs : AddPass(e, arg)

Spec == Init /\ [][Next]_vars

-----------------------------------------------------------------------------
(* The graph builders' state machine: the caller holds a capability record *)
(* and a connectivity graph, and builds validators from them.              *)

InitGraph ==
    /\ properties \in PropertiesSet
    /\ connectivity_graph \in InputGraphs
    /\ built = NoBuilt
    /\ OrchIdle
    /\ TranslateIdle
    /\ PassIdle

\* connectivity_validator(properties, connectivity_graph)
ConnectivityValidator ==
    /\ LET r == _connectivity_validator(properties, connectivity_graph)
       IN  built' = [op |-> "connectivity_validator", status |-> r.status,
                     graph |-> r.graph]
    /\ connectivity_graph' = CallerGraphAfter("connectivity_validator", properties,
                                              connectivity_graph)
    /\ UNCHANGED <<properties, orchVars, translateVars, passVars>>

\* gate_connectivity_validator(properties, connectivity_graph)
GateConnectivityValidator ==
    /\ LET r == _gate_connectivity_validator(properties, connectivity_graph)
       IN  built' = [op |-> "gate_connectivity_validator", status |-> r.status,
                     graph |-> r.graph]
    /\ connectivity_graph' = CallerGraphAfter("gate_connectivity_validator", properties,
                                              connectivity_graph)
    /\ UNCHANGED <<properties, orchVars, translateVars, passVars>>

\* lexi_mapping_routing_pass(properties, connectivity_graph)
LexiMappingRoutingPass ==
    /\ LET r == _lexi_mapping_routing_pass(properties, connectivity_graph)
       IN  built' = [op |-> "lexi_mapping_routing_pass", status |-> r.status,
                     graph |-> r.graph]
    /\ connectivity_graph' = CallerGraphAfter("lexi_mapping_routing_pass", properties,
                                              connectivity_graph)
    /\ UNCHANGED <<properties, orchVars, translateVars, passVars>>

\* create_nativization_pass(properties, connectivity_graph)
CreateNativizationPass ==
    /\ LET r == create_nativization_pass(properties, connectivity_graph)
       IN  built' = [op |-> "create_nativization_pass", status |-> r.status,
                     graph |-> r.graph]
    /\ connectivity_graph' = CallerGraphAfter("create_nativization_pass", properties,
                                              connectivity_graph)
    /\ UNCHANGED <<properties, orchVars, translateVars, passVars>>

NextGraph ==
    \/ ConnectivityValidator
    \/ GateConnectivityValidator
    \/ LexiMappingRoutingPass
    \/ CreateNativizationPass

SpecGraph == InitGraph /\ [][NextGraph]_vars

-----------------------------------------------------------------------------
(* The translator's state machine.                                         *)

InitTranslate ==
    /\ properties \in {q \in PropertiesSet : q.twoQubitProperties = EmptyTable}
    /\ connectivity_graph = EmptyGraph
    /\ built = NoBuilt
    /\ gate_name = NoNames
    /\ translated = NoNames
    /\ OrchIdle
    /\ PassIdle

\* _get_qpu_gate_translations(properties, arg)
GetQpuGateTranslations(arg) ==
    /\ gate_name' = arg
    /\ translated' = _get_qpu_gate_translations(properties.family, arg)
    /\ UNCHANGED <<orchVars, graphVars, passVars>>

NextTranslate == \E arg \in TranslateArgs : GetQpuGateTranslations(arg)

SpecTranslate == InitTranslate /\ [][NextTranslate]_vars

-----------------------------------------------------------------------------
(* The gate-connectivity criterion's state machine.                        *)

\* A criterion built from a dict with the default directed=True, and the
\* circuit given to validate (none where validate_instruction_connectivity
\* is called directly).
InitCheck ==
    /\ criterion_graph \in {GateConnectivityCriterion_init(d, TRUE) :
                                d \in CriterionDicts}
    /\ circuit \in Circuits
    /\ checked = NoChecked
    /\ OrchIdle
    /\ GraphIdle
    /\ TranslateIdle
    /\ TketIdle
    /\ AhsIdle
    /\ NoiseIdle
    /\ RzIdle

\* criterion.validate(circuit)
ValidateCircuit ==
    /\ LET r == GateConnectivityCriterion_validate(criterion_graph, circuit)
       IN  checked' = [NoChecked EXCEPT !.op = "validate", !.status = r.status,
                                        !.error = r.error, !.log = r.log]
    /\ UNCHANGED <<criterion_graph, circuit, orchVars, graphVars, translateVars,
                   tketVars, ahsVars, noiseVars, rzVars>>

\* criterion.validate_instruction_connectivity(gate_name, control, target)
ValidateInstructionConnectivity(a) ==
    /\ circuit = <<>>
    /\ LET err == validate_instruction_connectivity(criterion_graph, a.gate_name,
                                                    a.control, a.target)
       IN  checked' = [op |-> "validate_instruction_connectivity",
                       gate_name |-> a.gate_name, control |-> a.control,
                       target |-> a.target,
                       status |-> IF err = NoCheckError THEN "returned" ELSE "raised",
                       error |-> err, log |-> <<>>]
    /\ UNCHANGED <<criterion_graph, circuit, orchVars, graphVars, translateVars,
                   tketVars, ahsVars, noiseVars, rzVars>>

NextCheck ==
    \/ ValidateCircuit
    \/ \E a \in ConnectivityArgs : ValidateInstructionConnectivity(a)

SpecCheck == InitCheck /\ [][NextCheck]_vars

-----------------------------------------------------------------------------
(* The criterion's constructor on a caller's DiGraph: connectivity_graph   *)
(* is the caller's graph object, criterion_graph the graph the criterion   *)
(* holds.                                                                  *)

InitCriterion ==
    /\ properties = [family |-> "Other", twoQubitProperties |-> EmptyTable,
                     nativeGateSet |-> NativeGateSet("Other")]
    /\ connectivity_graph \in CallerDiGraphs
    /\ built = NoBuilt
    /\ CheckIdle
    /\ OrchIdle
    /\ TranslateIdle
    /\ TketIdle
    /\ AhsIdle
    /\ NoiseIdle
    /\ RzIdle

\* GateConnectivityCriterion(connectivity_graph, directed): the criterion
\* holds the caller's object, so both names see what the constructor did.
ConstructCriterion(directed) ==
    /\ LET r == GateConnectivityCriterion_init_DiGraph(connectivity_graph, directed)
       IN  /\ criterion_graph' = r.graph
           /\ connectivity_graph' = r.graph
           /\ checked' = [NoChecked EXCEPT !.op = "__init__", !.status = r.status,
                                           !.error = r.error]
    /\ UNCHANGED <<properties, built, circuit, orchVars, translateVars,
                   tketVars, ahsVars, noiseVars, rzVars>>

NextCriterion == \E directed \in BOOLEAN : ConstructCriterion(directed)

SpecCriterion == InitCriterion /\ [][NextCriterion]_vars

-----------------------------------------------------------------------------
(* The compiler pass's state machine.                                      *)

InitTket ==
    /\ tket_passes \in {TketCompilerPass_init(a) : a \in TketInitArgs}
    /\ pytket \in {[o \in PytketObjects |-> IF o = "caller" THEN c ELSE <<>>] :
                        c \in SeqsUpTo({"H", "CX"}, MaxGates)}
    /\ ran = NoRan
    /\ OrchIdle
    /\ GraphIdle
    /\ TranslateIdle
    /\ CheckIdle
    /\ AhsIdle
    /\ NoiseIdle
    /\ RzIdle

\* compiler_pass.run(task)
TketRun(task) ==
    /\ LET r == TketCompilerPass_run(tket_passes, pytket, task)
       IN  /\ pytket' = r.objects
           /\ ran' = [op |-> "run", input |-> task, status |-> r.status,
                      result |-> r.result, error |-> r.error,
                      before |-> IF task.ref = "caller" THEN pytket["caller"] ELSE <<>>,
                      log |-> r.log]
    /\ UNCHANGED <<tket_passes, orchVars, graphVars, translateVars, checkVars,
                   ahsVars, noiseVars, rzVars>>

NextTket == \E task \in Tasks : TketRun(task)

SpecTket == InitTket /\ [][NextTket]_vars

-----------------------------------------------------------------------------
(* The analog validators: the constants are built from a capability record *)
(* and a device validator is run on a part of an analog program.           *)

InitAhs ==
    /\ ahs_properties \in AhsProperties
    /\ constants = NoConstants
    /\ ahs_program \in AhsPrograms
    /\ ahs_checked = NoAhsChecked
    /\ OrchIdle
    /\ GraphIdle
    /\ TranslateIdle
    /\ CheckIdle
    /\ TketIdle
    /\ NoiseIdle
    /\ RzIdle

AhsCriterion ==
    /\ constants.status = "none"
    /\ constants' = _get_ahs_device_capabilities(ahs_properties)
    /\ UNCHANGED <<ahs_properties, ahs_program, ahs_checked, orchVars, graphVars,
                   translateVars, checkVars, tketVars, noiseVars, rzVars>>

ValidateHamiltonian ==
    /\ constants.status = "built"
    /\ ahs_program.kind = "hamiltonian"
    /\ ahs_checked' = AhsChecked("DeviceHamiltonianValidator",
            DeviceHamiltonianValidator(LocalRydbergFlag(constants), ahs_program))
    /\ UNCHANGED <<ahs_properties, constants, ahs_program, orchVars, graphVars,
                   translateVars, checkVars, tketVars, noiseVars, rzVars>>

ValidateDrivingField ==
    /\ constants.status = "built"
    /\ ahs_program.kind = "driving_field"
    /\ ahs_checked' = AhsChecked("DeviceDrivingFieldValidator",
            DeviceDrivingFieldValidator(constants, ahs_program))
    /\ UNCHANGED <<ahs_properties, constants, ahs_program, orchVars, graphVars,
                   translateVars, checkVars, tketVars, noiseVars, rzVars>>

ValidateLocalDetuning ==
    /\ constants.status = "built"
    /\ ahs_program.kind = "local_detuning"
    /\ ahs_checked' = AhsChecked("DeviceLocalDetuningValidator",
            DeviceLocalDetuningValidator(constants, ahs_program))
    /\ UNCHANGED <<ahs_properties, constants, ahs_program, orchVars, graphVars,
                   translateVars, checkVars, tketVars, noiseVars, rzVars>>

ValidateAtomArrangement ==
    /\ constants.status = "built"
    /\ ahs_program.kind = "atom_arrangement"
    /\ ahs_checked' = AhsChecked("DeviceAtomArrangementValidator",
            DeviceAtomArrangementValidator(constants, ahs_program))
    /\ UNCHANGED <<ahs_properties, constants, ahs_program, orchVars, graphVars,
                   translateVars, checkVars, tketVars, noiseVars, rzVars>>

NextAhs ==
    \/ AhsCriterion
    \/ ValidateHamiltonian
    \/ ValidateDrivingField
    \/ ValidateLocalDetuning
    \/ ValidateAtomArrangement

SpecAhs == InitAhs /\ [][NextAhs]_vars

-----------------------------------------------------------------------------

(* The noise pass: the noise data are built from a capability record and   *)
(* the pass is run on an analog program.                                   *)

InitNoise ==
    /\ noise_properties \in NoiseProperties
    /\ noise_model = NoNoiseData
    /\ noise_program \in NoisePrograms
    /\ noisy = NoNoisy
    /\ OrchIdle
    /\ GraphIdle
    /\ TranslateIdle
    /\ CheckIdle
    /\ TketIdle
    /\ AhsIdle
    /\ RzIdle

AhsNoiseModel ==
    /\ noise_model.status = "none"
    /\ noise_model' = _ahs_noise_model(noise_properties)
    /\ UNCHANGED <<noise_properties, noise_program, noisy, orchVars, graphVars,
                   translateVars, checkVars, tketVars, ahsVars, rzVars>>

AhsNoiseRun ==
    /\ noise_model.status = "built"
    /\ noisy' \in _apply_noise_model(noise_model.data, noise_program,
                                     noise_program.steps)
    /\ UNCHANGED <<noise_properties, noise_model, noise_program, orchVars, graphVars,
                   translateVars, checkVars, tketVars, ahsVars, rzVars>>

NextNoise ==
    \/ AhsNoiseModel
    \/ AhsNoiseRun

SpecNoise == InitNoise /\ [][NextNoise]_vars

-----------------------------------------------------------------------------

(* The Rz-virtualization pass is applied to a circuit.                     *)

InitRz ==
    /\ rz_circuit \in RzCircuits
    /\ virtualized = NoVirtualized
    /\ OrchIdle
    /\ GraphIdle
    /\ TranslateIdle
    /\ CheckIdle
    /\ TketIdle
    /\ AhsIdle
    /\ NoiseIdle

VirtualizeRz ==
    /\ virtualized' = _virtualize_rz(rz_circuit)
    /\ UNCHANGED <<rz_circuit, orchVars, graphVars, translateVars, checkVars,
                   tketVars, ahsVars, noiseVars>>

NextRz == VirtualizeRz

SpecRz == InitRz /\ [][NextRz]_vars

-----------------------------------------------------------------------------

(* Properties of the orchestrator.                                         *)

\* The positions of the log of the last call, in call order.
LogPositions == [k \in 1..Len(call.log) |-> call.log[k].pos]

StrictlyIncreasing(s) == \A j, k \in 1..Len(s) : j < k => s[j] < s[k]

\* C1: when run_passes returns, it has called the pass at every position of
\* the emulator's list exactly once and in list order, the first with the
\* caller's program and each later one with the program the pass before it
\* returned, and it returns what the last pass returned (the caller's
\* program for an empty list).
C1_RunPassesChains ==
    (call.op = "run_passes" /\ call.status = "returned") =>
        LET list == ListOf(call.emu)
            n == Len(list)
        IN  /\ Len(call.log) = n
            /\ \A k \in 1..n :
                  /\ call.log[k].pos = k
                  /\ call.log[k].pass = list[k]
                  /\ call.log[k].given =
                        IF k = 1 THEN call.input
                        ELSE PassCall(list[k - 1], call.log[k - 1].given)
            /\ call.result =
                  IF n = 0 THEN call.input
                  ELSE PassCall(list[n], call.log[n].given)

C1_Witness ==
    /\ call.op = "run_passes"
    /\ call.status = "returned"
    /\ Len(ListOf(call.emu)) >= 2
    /\ call.result # call.input
    /\ call.log[2].given # call.input

\* C2: in run_passes and validate, a call of a pass that raises is the last
\* call of a pass made: the passes are called at increasing positions, no
\* pass is called after one that raised, and the caller gets that error.
C2_FailFast ==
    call.op \in {"run_passes", "validate"} =>
        /\ StrictlyIncreasing(LogPositions)
        /\ \A k \in 1..Len(call.log) :
              PassRaises(call.log[k].pass, call.log[k].given) =>
                  /\ k = Len(call.log)
                  /\ call.status = "raised"
                  /\ call.error = PassError(call.log[k].pass, call.log[k].given)
        /\ call.status = "raised" =>
              /\ call.log # <<>>
              /\ PassRaises(call.log[Len(call.log)].pass,
                            call.log[Len(call.log)].given)

C2_Witness ==
    /\ call.op = "run_passes"
    /\ call.status = "raised"
    /\ call.log[Len(call.log)].pos < Len(ListOf(call.emu))
    /\ Len(call.log) >= 2

\* The positions of list that hold validation passes.
ValidationPositions(list) == {k \in 1..Len(list) : IsValidationPass(list[k])}

\* C3: validate calls validation passes only, each with the caller's
\* program and in list order; it calls every validation pass of the list up
\* to the first one that raises, and it fails only if a validation pass
\* raises: a transform pass of the list is never called, wherever it is.
C3_ValidateOnlyValidation ==
    call.op = "validate" =>
        LET list == ListOf(call.emu)
            called == {call.log[k].pos : k \in 1..Len(call.log)}
            failing == {k \in ValidationPositions(list) :
                          PassRaises(list[k], call.input)}
        IN  /\ StrictlyIncreasing(LogPositions)
            /\ \A k \in 1..Len(call.log) :
                  /\ call.log[k].pos \in ValidationPositions(list)
                  /\ call.log[k].pass = list[call.log[k].pos]
                  /\ call.log[k].given = call.input
            /\ failing = {} =>
                  /\ call.status = "returned"
                  /\ called = ValidationPositions(list)
            /\ failing # {} =>
                  /\ call.status = "raised"
                  /\ \E f \in failing :
                        /\ \A g \in failing : f <= g
                        /\ called = {k \in ValidationPositions(list) : k <= f}
                        /\ call.error = PassError(list[f], call.input)

C3_Witness ==
    /\ call.op = "validate"
    /\ call.status = "returned"
    /\ \E j, k \in 1..Len(ListOf(call.emu)) :
          /\ j < k
          /\ ListOf(call.emu)[j] = "AlwaysFailPass"
          /\ ListOf(call.emu)[k] = "QubitCountValidator"
    /\ call.log # <<>>

\* What list object l held when it was created.
InitialList(l) == IF l = "caller" THEN callerInit ELSE <<>>

\* C4: add_pass with a pass or an iterable of passes leaves the emulator's
\* list as it was, followed by the pass or by the passes in iteration
\* order, and returns the emulator; at any time a list is what it held at
\* first followed by everything add_pass calls added, in call order.
C4_AddPassAppends ==
    /\ [](\A l \in ListIds : heap[l] = InitialList(l) \o added[l])
    /\ [][(call'.op = "add_pass" /\ call'.arg.tag \in {"pass", "iterable"}) =>
            /\ heap'[emuRef[call'.emu]] =
                  heap[emuRef[call'.emu]] \o call'.arg.items
            /\ call'.status = "returned"
            /\ call'.returned = call'.emu]_vars

C4_Witness ==
    /\ call.op = "add_pass"
    /\ call.arg.tag = "iterable"
    /\ call.status = "returned"
    /\ Len(call.arg.items) = 2
    /\ call.arg.items[1] # call.arg.items[2]
    /\ Len(ListOf(call.emu)) > 2
    /\ Len(added[emuRef[call.emu]]) > 2

\* C5: add_pass(None) raises a TypeError and leaves every list, and the list
\* each emulator refers to, as they were.
C5_AddPassNoneRaises ==
    [][(call'.op = "add_pass" /\ call'.arg.tag = "None") =>
        /\ call'.status = "raised"
        /\ call'.error.type = "TypeError"
        /\ call'.returned = ""
        /\ heap' = heap
        /\ emuRef' = emuRef]_vars

C5_Witness ==
    /\ call.op = "add_pass"
    /\ call.arg.tag = "None"
    /\ call.status = "raised"
    /\ call.error.type = "TypeError"
    /\ Len(ListOf(call.emu)) > 0

\* C26: each emulator owns its pass list: an add_pass call on one emulator
\* changes neither the pass list of the other emulator, whether the two were
\* built with the default or from one list object, nor the list object the
\* caller passed to a constructor.
C26_EmulatorOwnsList ==
    [][call'.op = "add_pass" =>
         /\ \A e \in Emulators \ {call'.emu} : heap'[emuRef[e]] = heap[emuRef[e]]
         /\ heap'["caller"] = heap["caller"]]_vars

\* C28: every element of an emulator's pass list is a pass after any
\* sequence of add_pass calls, and add_pass raises TypeError and leaves the
\* list as it was for an iterable that holds an element that is no pass (a
\* string, a list of strings).
C28_OnlyPassesInList ==
    /\ [](\A e \in Emulators : \A i \in 1..Len(ListOf(e)) : IsBasePass(ListOf(e)[i]))
    /\ [][(/\ call'.op = "add_pass"
           /\ IsIterable(call'.arg)
           /\ \E i \in 1..Len(call'.arg.items) : ~IsBasePass(call'.arg.items[i])) =>
            /\ call'.status = "raised"
            /\ call'.error.type = "TypeError"
            /\ heap' = heap]_vars

-----------------------------------------------------------------------------
(* Properties of the graph builders.                                       *)

Reversed(E) == {<<e[2], e[1]>> : e \in E}

CalibratedBuild ==
    /\ built.op = "gate_connectivity_validator"
    /\ properties.family \in {"Rigetti", "IQM"}

HasEntry(u, v) == EdgeKey(u, v) \in DOMAIN properties.twoQubitProperties

\* The names listed under "u-v" as the family stores them: Rigetti's CPHASE
\* is stored as CPhaseShift.
StoredNames(u, v) ==
    {IF properties.family = "Rigetti" /\ n = "CPHASE" THEN "CPhaseShift" ELSE n :
        n \in SeqToSet(properties.twoQubitProperties[EdgeKey(u, v)])}

\* C6: the graph the IQM handler gives the connectivity validator has the
\* nodes of the caller's graph and holds edge (u, v) exactly when the
\* caller's graph holds (u, v) or (v, u).
C6_IqmSymmetricClosure ==
    (built.op = "connectivity_validator" /\ properties.family = "IQM") =>
        /\ built.status = "ok"
        /\ Edges(built.graph) =
              Edges(connectivity_graph) \cup Reversed(Edges(connectivity_graph))
        /\ NodeSet(built.graph) = NodeSet(connectivity_graph)

C6_Witness ==
    /\ built.op = "connectivity_validator"
    /\ properties.family = "IQM"
    /\ Edges(connectivity_graph) = {<<0, 1>>, <<0, 2>>}
    /\ Edges(built.graph) = {<<0, 1>>, <<1, 0>>, <<0, 2>>, <<2, 0>>}

\* C7: in the gate-connectivity graph built for a Rigetti or IQM record,
\* every edge (u, v) has its back-edge (v, u), and both hold the same
\* supported-gate set.
C7_GateSetsSymmetric ==
    (CalibratedBuild /\ built.status = "ok") =>
        \A e \in Edges(built.graph) :
            /\ <<e[2], e[1]>> \in Edges(built.graph)
            /\ SupportedGates(built.graph, e[2], e[1]) =
                  SupportedGates(built.graph, e[1], e[2])

\* C8 as first stated: every edge of the caller's graph with no entry under
\* "u-v" is in the built graph with an empty supported-gate set, and no
\* error is raised.
C8_UncalibratedEdgeEmpty ==
    CalibratedBuild =>
        \A e \in Edges(connectivity_graph) :
            ~HasEntry(e[1], e[2]) =>
                /\ built.status = "ok"
                /\ e \in Edges(built.graph)
                /\ built.graph.attr[e].has
                /\ SupportedGates(built.graph, e[1], e[2]) = {}

\* C8, amended: every edge (u, v) of the caller's graph with no entry under
\* "u-v" is in the built graph and no error is raised; its supported-gate
\* set is empty, unless the caller's graph also holds (v, u) and the table
\* has an entry under "v-u": then it is the set stored for (v, u).
C8_UncalibratedEdgeEmptyOrCopied ==
    CalibratedBuild =>
        \A e \in Edges(connectivity_graph) :
            ~HasEntry(e[1], e[2]) =>
                /\ built.status = "ok"
                /\ e \in Edges(built.graph)
                /\ built.graph.attr[e].has
                /\ SupportedGates(built.graph, e[1], e[2]) =
                      IF <<e[2], e[1]>> \in Edges(connectivity_graph)
                            /\ HasEntry(e[2], e[1])
                      THEN StoredNames(e[2], e[1])
                      ELSE {}

C8_Witness ==
    /\ CalibratedBuild
    /\ built.status = "ok"
    /\ Edges(connectivity_graph) = {<<0, 1>>, <<1, 2>>}
    /\ DOMAIN properties.twoQubitProperties = {"0-1", "2-1"}
    /\ SupportedGates(built.graph, 1, 2) = {}
    /\ built.graph.attr[<<1, 2>>].has
    /\ SupportedGates(built.graph, 0, 1) # {}

\* C9: for an edge (u, v) of the caller's graph with an entry under "u-v"
\* and none under "v-u", the built graph holds (u, v) and (v, u), both with
\* exactly the names listed under "u-v" as the family stores them, whether
\* or not the caller's graph holds (v, u) and in whatever order the edges
\* are visited.
C9_OneDirectionCalibration ==
    CalibratedBuild =>
        \A e \in Edges(connectivity_graph) :
            (HasEntry(e[1], e[2]) /\ ~HasEntry(e[2], e[1])) =>
                /\ built.status = "ok"
                /\ {e, <<e[2], e[1]>>} \subseteq Edges(built.graph)
                /\ SupportedGates(built.graph, e[1], e[2]) = StoredNames(e[1], e[2])
                /\ SupportedGates(built.graph, e[2], e[1]) = StoredNames(e[1], e[2])

\* The back-edge (1, 0) is in the caller's graph and is visited first.
C9_Witness ==
    /\ CalibratedBuild
    /\ properties.family = "Rigetti"
    /\ connectivity_graph.node = <<1, 0>>
    /\ Edges(connectivity_graph) = {<<0, 1>>, <<1, 0>>}
    /\ DOMAIN properties.twoQubitProperties = {"0-1"}
    /\ SupportedGates(built.graph, 1, 0) = {"CZ", "CPhaseShift"}
    /\ SupportedGates(built.graph, 0, 1) = {"CZ", "CPhaseShift"}

-----------------------------------------------------------------------------
(* Properties of the gate-connectivity criterion.                          *)

\* The shapes validate_instruction_connectivity recognizes, and the ordered
\* pair of a recognized shape.
FitsPair(control, target) ==
    \/ Len(control) = 1 /\ Len(target) = 1
    \/ Len(control) = 0 /\ Len(target) = 2

PairOf(control, target) ==
    IF Len(control) = 1 THEN <<control[1], target[1]>> ELSE <<target[1], target[2]>>

\* What the claim says of gate name on the pair e, for an outcome
\* [status, error]: rejected as not connected, rejected as not supported, or
\* passed.
PairOutcome(name, e, status, error) ==
    /\ e \notin Edges(criterion_graph) =>
          /\ status = "raised"
          /\ error.type = "ValueError"
          /\ error.msg = "is not connected to"
          /\ error.qubits = e
    /\ (e \in Edges(criterion_graph)
            /\ name \notin SupportedGates(criterion_graph, e[1], e[2])) =>
          /\ status = "raised"
          /\ error.type = "ValueError"
          /\ error.msg = "does not support gate"
          /\ error.qubits = e
          /\ error.gate = name
    /\ (e \in Edges(criterion_graph)
            /\ name \in SupportedGates(criterion_graph, e[1], e[2])) =>
          status = "returned"

\* validate raised while it checked the gate of the k-th entry of the log.
FailedAt(k) ==
    /\ checked.status = "raised"
    /\ k = Len(checked.log)
    /\ checked.error.msg # "No end verbatim box found"

\* C12: a two-qubit gate g on the ordered pair (a, b) fails with the 'not
\* connected' error when the edge (a, b) is absent, with the different 'does
\* not support gate' error when the edge is present and g is not in its set
\* (an empty set included), and passes when g is in the set of the edge;
\* both for a direct call and for every gate validate checks in a box.
C12_EdgeAndGateErrors ==
    /\ (checked.op = "validate_instruction_connectivity"
            /\ FitsPair(checked.control, checked.target)) =>
          PairOutcome(checked.gate_name, PairOf(checked.control, checked.target),
                      checked.status, checked.error)
    /\ checked.op = "validate" =>
          \A k \in 1..Len(checked.log) :
              LET instruction == circuit[checked.log[k] + 1]
              IN  (instruction.qubit_count = 2
                      /\ FitsPair(instruction.control, instruction.target)) =>
                    PairOutcome(instruction.name,
                                PairOf(instruction.control, instruction.target),
                                IF FailedAt(k) THEN "raised" ELSE "returned",
                                checked.error)

\* The edge (0, 1) is there with an empty set, and CZ on it is refused in a
\* box; the back-edge is absent.
C12_Witness ==
    /\ checked.op = "validate"
    /\ circuit = <<Directive("StartVerbatimBox"), GateInstruction("CZ", <<>>, <<0, 1>>),
                   Directive("EndVerbatimBox")>>
    /\ Edges(criterion_graph) = {<<0, 1>>}
    /\ SupportedGates(criterion_graph, 0, 1) = {}
    /\ checked.status = "raised"
    /\ checked.error.msg = "does not support gate"

\* Positions of the circuit, counted from 1.
IsStart(i) == circuit[i].kind = "StartVerbatimBox"
IsEnd(i) == circuit[i].kind = "EndVerbatimBox"
IsGate(i) == circuit[i].kind = "Gate"

\* A start marker with no end marker after it.
Unclosed(s) ==
    /\ IsStart(s)
    /\ \A j \in (s + 1)..Len(circuit) : ~IsEnd(j)

\* Position i lies after the start marker s with no end marker in between:
\* the while loop started at s reaches i.
InRegionOf(s, i) ==
    /\ IsStart(s)
    /\ s < i
    /\ \A j \in (s + 1)..i : ~IsEnd(j)

InRegion(i) == \E s \in 1..Len(circuit) : InRegionOf(s, i)

\* Position i lies between a start marker and its end marker.
InPair(i) ==
    /\ InRegion(i)
    /\ \E j \in (i + 1)..Len(circuit) : IsEnd(j)

PassesOwnCheck(i) == CheckInBox(criterion_graph, circuit[i]) = NoCheckError

StructuralError ==
    /\ checked.status = "raised"
    /\ checked.error.type = "ValueError"
    /\ checked.error.msg = "No end verbatim box found"
    /\ checked.error.index = Len(circuit)

\* C13 as stated: with a start marker that no end marker follows, validate
\* raises, and raises the structural error when every gate after that start
\* marker (the first such marker) passes its own check.
C13_UnclosedBoxAfterMarker ==
    checked.op = "validate" =>
        \A s \in 1..Len(circuit) :
            (Unclosed(s) /\ \A t \in 1..(s - 1) : ~Unclosed(t)) =>
                /\ checked.status = "raised"
                /\ (\A i \in (s + 1)..Len(circuit) : IsGate(i) => PassesOwnCheck(i))
                      => StructuralError

\* C13, amended: with a start marker that no end marker follows, validate
\* raises, and raises the structural error when every gate of every verbatim
\* region (after a start marker, before the next end marker) passes its own
\* check.
C13_UnclosedBoxStructural ==
    checked.op = "validate" =>
        ((\E s \in 1..Len(circuit) : Unclosed(s)) =>
            /\ checked.status = "raised"
            /\ (\A i \in 1..Len(circuit) : (IsGate(i) /\ InRegion(i)) => PassesOwnCheck(i))
                  => StructuralError)

\* An open box whose only gate passes.
C13_Witness ==
    /\ checked.op = "validate"
    /\ circuit = <<Directive("StartVerbatimBox"), GateInstruction("CZ", <<>>, <<0, 1>>)>>
    /\ "CZ" \in SupportedGates(criterion_graph, 0, 1)
    /\ StructuralError

\* C14: only verbatim regions are examined: a circuit with no start marker
\* passes; validate raises only if a start marker has no end marker or a
\* gate between a start marker and its end marker fails its check; and when
\* validate returns, every gate between a start marker and its end marker
\* was checked and passed.
C14_VerbatimRegionsOnly ==
    checked.op = "validate" =>
        /\ (\A i \in 1..Len(circuit) : ~IsStart(i)) => checked.status = "returned"
        /\ checked.status = "raised" =>
              \/ \E s \in 1..Len(circuit) : Unclosed(s)
              \/ \E i \in 1..Len(circuit) : IsGate(i) /\ InPair(i) /\ ~PassesOwnCheck(i)
        /\ checked.status = "returned" =>
              \A i \in 1..Len(circuit) :
                  (IsGate(i) /\ InPair(i)) =>
                      /\ InSeq(checked.log, i - 1)
                      /\ PassesOwnCheck(i)

\* A gate on an absent edge before the box, a gate that passes inside.
C14_Witness ==
    /\ checked.op = "validate"
    /\ circuit = <<GateInstruction("CZ", <<>>, <<1, 0>>), Directive("StartVerbatimBox"),
                   GateInstruction("CZ", <<>>, <<0, 1>>), Directive("EndVerbatimBox")>>
    /\ <<1, 0>> \notin Edges(criterion_graph)
    /\ checked.status = "returned"
    /\ checked.log = <<2>>

\* The qubits an instruction involves.
Involved(instruction) == SeqToSet(instruction.control) \cup SeqToSet(instruction.target)

\* C15: in a box, a gate whose operator does not act on exactly two qubits
\* passes if and only if every qubit it involves is a node of the graph.
C15_EveryInvolvedQubitIsNode ==
    checked.op = "validate" =>
        \A k \in 1..Len(checked.log) :
            LET instruction == circuit[checked.log[k] + 1]
            IN  instruction.qubit_count # 2 =>
                    (~FailedAt(k) <=> Involved(instruction) \subseteq NodeSet(criterion_graph))

\* C16: in a box, a gate whose qubits fit neither (one control, one target)
\* nor (no control, two targets) and that involves more than two qubits
\* raises the 'Unrecognized qubit targetting' error.
C16_MoreThanTwoQubitsRejected ==
    checked.op = "validate" =>
        \A k \in 1..Len(checked.log) :
            LET instruction == circuit[checked.log[k] + 1]
            IN  (Cardinality(Involved(instruction)) > 2
                    /\ ~FitsPair(instruction.control, instruction.target)) =>
                    /\ FailedAt(k)
                    /\ checked.error.msg = "Unrecognized qubit targetting"

\* C29: constructing the criterion from a caller's DiGraph leaves that graph
\* as it was, with directed=True and with directed=False; the back-edges of
\* the undirected mode, each with the supported gates of its forward edge
\* and added only where the caller's graph has no such edge, are in the
\* criterion's graph.
C29_CallerDiGraphKept ==
    [][\A directed \in BOOLEAN :
         ConstructCriterion(directed) =>
           /\ connectivity_graph' = connectivity_graph
           /\ (~directed /\ checked'.status = "returned") =>
                \A e \in Edges(connectivity_graph) :
                   /\ HasEdge(criterion_graph', e[2], e[1])
                   /\ criterion_graph'.attr[<<e[2], e[1]>>] =
                         IF HasEdge(connectivity_graph, e[2], e[1])
                         THEN connectivity_graph.attr[<<e[2], e[1]>>]
                         ELSE connectivity_graph.attr[e]]_vars

-----------------------------------------------------------------------------
(* Properties of the analog constants builder and the analog validators.   *)

\* The local fields of built constants that are populated.
PopulatedLocal(c) == {k \in LocalKeys : c.fields[k] # None}

\* What the block says each local field is.
FromBlock(block) ==
    [LOCAL_MIN_DISTANCE_BETWEEN_SHIFTED_SITES |-> block.spacingRadialMin,
     LOCAL_TIME_PRECISION |-> block.timeResolution,
     LOCAL_MIN_TIME_SEPARATION |-> block.timeDeltaMin,
     LOCAL_MAGNITUDE_SEQUENCE_VALUE_MIN |-> block.detuningRange[1],
     LOCAL_MAGNITUDE_SEQUENCE_VALUE_MAX |-> block.detuningRange[2],
     LOCAL_MAGNITUDE_SLOPE_MAX |-> block.detuningSlewRateMax,
     LOCAL_MAX_NONZERO_PATTERN_VALUES |-> block.numberLocalDetuningSitesMax,
     MAGNITUDE_PATTERN_VALUE_MIN |-> block.siteCoefficientRange[1],
     MAGNITUDE_PATTERN_VALUE_MAX |-> block.siteCoefficientRange[2]]

\* C18: the constants built from a capability record hold the local-detuning
\* fields all or none.  Without a local-Rydberg block no local field is
\* populated and LOCAL_RYDBERG_CAPABILITIES is false; with a block every local
\* field is populated from the block and the flag is true; the flag is true
\* exactly when the local fields are populated.
C18_LocalFieldsAllOrNone ==
    constants.status = "built" =>
        LET rydberg_local == ahs_properties.paradigm.rydberg.rydbergLocal
        IN  /\ rydberg_local = None =>
                /\ PopulatedLocal(constants) = {}
                /\ ~LocalRydbergFlag(constants)
            /\ rydberg_local # None =>
                /\ \A k \in LocalKeys :
                        constants.fields[k] = Some(FromBlock(rydberg_local[1])[k])
                /\ LocalRydbergFlag(constants)
            /\ LocalRydbergFlag(constants) <=> PopulatedLocal(constants) = LocalKeys
            /\ LocalRydbergFlag(constants) <=> PopulatedLocal(constants) # {}
            /\ constants.fields["LOCAL_RYDBERG_CAPABILITIES"] \in {Some(0), Some(1)}

\* Constants were built from a record with a local-Rydberg block.
C18_Witness ==
    /\ constants.status = "built"
    /\ ahs_properties.paradigm.rydberg.rydbergLocal # None
    /\ LocalRydbergFlag(constants)
    /\ constants.fields["LOCAL_MAX_NONZERO_PATTERN_VALUES"] = Some(MaxSites)

\* The series of the program has a first or a last value that is not 0.
NonzeroBoundary(program) ==
    /\ program.values # <<>>
    /\ \/ program.values[1] # 0
       \/ program.values[Len(program.values)] # 0

BoundaryValues(program) ==
    <<program.values[1], program.values[Len(program.values)]>>

\* The boundary check of the validator that was run.
BoundaryCheckOf(validator) ==
    IF validator = "DeviceDrivingFieldValidator"
    THEN "amplitude_start_and_end_values"
    ELSE "local_detuning_start_and_end_values"

BoundaryValidators == {"DeviceDrivingFieldValidator", "DeviceLocalDetuningValidator"}

\* The error of the last run is the boundary error, citing both values.
CitesBoundary ==
    /\ ahs_checked.error.by = BoundaryCheckOf(ahs_checked.validator)
    /\ ahs_checked.error.cites = BoundaryValues(ahs_program)

\* No check that runs before the boundary check fails on the program.
NoEarlierFailure ==
    IF ahs_checked.validator = "DeviceDrivingFieldValidator"
    THEN ahs_program.other_failure # "inherited"
    ELSE /\ ahs_program.other_failure = "none"
         /\ LocalRydbergFlag(constants)
         /\ constants.fields["LOCAL_MAX_NONZERO_PATTERN_VALUES"] # None
         /\ CountNonzero(ahs_program.pattern)
                <= constants.fields["LOCAL_MAX_NONZERO_PATTERN_VALUES"][1]

\* A series that starts and ends at 0, or is empty, passes the boundary check.
ZeroBoundaryPasses ==
    (ahs_checked.validator \in BoundaryValidators /\ ~NonzeroBoundary(ahs_program))
        => /\ ahs_checked.error.by # BoundaryCheckOf(ahs_checked.validator)
           /\ amplitude_start_and_end_values(ahs_program) = NoAhsError
           /\ local_detuning_start_and_end_values(ahs_program) = NoAhsError

\* C19 as stated: a series with a nonzero first or last value is rejected by
\* the driving-field validator and by the local-detuning validator whatever
\* the other fields hold, and the error cites both boundary values.
C19_BoundaryErrorAlwaysCited ==
    /\ (ahs_checked.validator \in BoundaryValidators /\ NonzeroBoundary(ahs_program))
          => ahs_checked.status = "raised" /\ CitesBoundary
    /\ ZeroBoundaryPasses

\* C19, amended: a series with a nonzero first or last value is rejected by
\* the driving-field validator and by the local-detuning validator whatever
\* the other fields hold; the error cites both boundary values unless a check
\* that runs before the boundary check fails first.  A series whose first and
\* last values are 0 passes the boundary check.
C19_BoundaryRejected ==
    /\ (ahs_checked.validator \in BoundaryValidators /\ NonzeroBoundary(ahs_program))
          => /\ ahs_checked.status = "raised"
             /\ NoEarlierFailure => CitesBoundary
             /\ ~NoEarlierFailure => ~CitesBoundary
    /\ ZeroBoundaryPasses

\* The local-detuning validator ran on a series that starts at 0 and ends at
\* 1, every earlier check passed, and it reported the two boundary values.
C19_Witness ==
    /\ ahs_checked.validator = "DeviceLocalDetuningValidator"
    /\ LocalRydbergFlag(constants)
    /\ ahs_program.values = <<0, 1>>
    /\ ahs_checked.status = "raised"
    /\ ahs_checked.error.cites = <<0, 1>>

\* The number of local-detuning blocks the Hamiltonian supplies.
SuppliedBlocks(program) ==
    IF program.localDetuning = None THEN 0 ELSE program.localDetuning[1]

\* C20: the device Hamiltonian validator's check rejects a Hamiltonian exactly
\* when LOCAL_RYDBERG_CAPABILITIES is false and the Hamiltonian supplies at
\* least one local-detuning block, and the error states the number of blocks
\* supplied; with the flag true or with no block the check passes.
C20_LocalDetuningNeedsFlag ==
    ahs_checked.validator = "DeviceHamiltonianValidator" =>
        LET flag == LocalRydbergFlag(constants)
            n == SuppliedBlocks(ahs_program)
            rejects == ~flag /\ n >= 1
        IN  /\ max_zero_local_detuning(flag, ahs_program) # NoAhsError <=> rejects
            /\ ahs_program.other_failure = "none" =>
                    (ahs_checked.status = "raised" <=> rejects)
            /\ (ahs_checked.status = "raised" /\ ahs_program.other_failure = "none")
                    => /\ ahs_checked.error.by = "max_zero_local_detuning"
                       /\ ahs_checked.error.cites = <<n>>
            /\ ahs_checked.error.by = "max_zero_local_detuning" => rejects

\* The validator rejected a Hamiltonian with the most blocks, on constants
\* built without a local-Rydberg block.
C20_Witness ==
    /\ ahs_checked.validator = "DeviceHamiltonianValidator"
    /\ ~LocalRydbergFlag(constants)
    /\ ahs_program.localDetuning = Some(MaxBlocks)
    /\ ahs_checked.status = "raised"
    /\ ahs_checked.error.cites = <<MaxBlocks>>


\* The minimum row separation the device asks for: the fixed value with
\* local-Rydberg capabilities, MIN_ROW_DISTANCE of the record otherwise.
MinRowSeparation ==
    IF ahs_properties.paradigm.rydberg.rydbergLocal # None THEN LocalRowDistance
    ELSE ahs_properties.paradigm.lattice.geometry.spacingVerticalMin

\* Every pair of sites is in one row or in rows far enough apart.
EveryPairInRows(sites) ==
    \A i, j \in 1..Len(sites) :
        LET d == IF sites[i][2] >= sites[j][2] THEN sites[i][2] - sites[j][2]
                 ELSE sites[j][2] - sites[i][2]
        IN  d = 0 \/ d >= MinRowSeparation

PrecisionOf ==
    [values |-> "GLOBAL_AMPLITUDE_VALUE_PRECISION",
     phase_values |-> "GLOBAL_PHASE_VALUE_PRECISION",
     detuning_values |-> "GLOBAL_DETUNING_VALUE_PRECISION"]

\* A value of the series is not a multiple of the series' precision.
OffPrecision(series) ==
    \E i \in 1..Len(SeriesOf(ahs_program, series)) :
        SeriesOf(ahs_program, series)[i] % constants.fields[PrecisionOf[series]][1] # 0

\* C24: the driving-field validator rejects a program in which a value of
\* the amplitude, the phase or the detuning series is not a multiple of the
\* value precision of that series.
C24_ValuePrecisionOfEverySeries ==
    ahs_checked.validator = "DeviceDrivingFieldValidator" =>
        \A series \in DOMAIN PrecisionOf :
            OffPrecision(series) => ahs_checked.status = "raised"

-----------------------------------------------------------------------------
(* Properties of the noise pass and of the Rz-virtualization pass.         *)

\* C22: noise injection keeps the shape of the program for every program and
\* every resolution: a run returns a program whose register has as many
\* sites as the input and whose amplitude and detuning series each have
\* `steps` time points and one value for each.
C22_ShapePreserved ==
    noisy.status # "none" =>
        /\ noisy.status = "returned"
        /\ Len(noisy.sites) = Len(noise_program.sites)
        /\ Len(noisy.filling) = Len(noise_program.filling)
        /\ noisy.amplitude.times = noise_program.steps
        /\ noisy.amplitude.values = noise_program.steps
        /\ noisy.detuning.times = noise_program.steps
        /\ noisy.detuning.values = noise_program.steps

\* C23: the filling of the returned register is the outcome of the
\* detection-error flip, which is applied to the outcome of the
\* filling/vacancy-error flip of the input filling.
C23_DetectionAfterFilling ==
    noisy.status = "returned" =>
        /\ noisy.first \in _apply_binomial_noise(noise_program.filling,
                                noise_model.data.filling_error,
                                noise_model.data.vacancy_error)
        /\ noisy.pre_seq \in _apply_binomial_noise(noisy.first,
                                noise_model.data.atom_detection_error_false_negative,
                                noise_model.data.atom_detection_error_false_positive)
        /\ noisy.filling = noisy.pre_seq

\* C30: each error probability of the noise data comes from its own field of
\* the record: filling_error from fillingErrorTypical, vacancy_error from
\* vacancyErrorTypical, the detection errors from their typical values.
C30_ErrorsFromOwnFields ==
    noise_model.status = "built" =>
        LET lattice == noise_properties.paradigm.performance.lattice
        IN  /\ noise_model.data.filling_error = lattice.fillingErrorTypical
            /\ noise_model.data.vacancy_error = lattice.vacancyErrorTypical
            /\ noise_model.data.atom_detection_error_false_positive
                    = lattice.atomDetectionErrorFalsePositiveTypical
            /\ noise_model.data.atom_detection_error_false_negative
                    = lattice.atomDetectionErrorFalseNegativeTypical

\* The positions of the commands of the circuit that are no Rz, in order.
NonRzPositions ==
    SelectSeq([i \in 1..Len(rz_circuit) |-> i], LAMBDA i : rz_circuit[i].type # "Rz")

\* The sum of the angles of the Rz commands on qubit q among the first j
\* commands of the circuit.
RECURSIVE RzSum(_, _)
RzSum(j, q) ==
    IF j = 0 THEN 0
    ELSE RzSum(j - 1, q) +
         (IF rz_circuit[j].type = "Rz" /\ rz_circuit[j].args[1] = q
          THEN rz_circuit[j].params[1] ELSE 0)

\* C27: for a circuit over CZ, Rz, PhasedX, Barrier and Measure the pass
\* returns the commands that are no Rz, in their order and on their qubits,
\* each PhasedX(alpha, beta) on q with beta increased by the sum of the
\* angles of the Rz commands on q before it, and no Rz; a circuit with a
\* command of another type raises ValueError.
C27_RzVirtualized ==
    virtualized.status # "none" =>
        IF \A i \in 1..Len(rz_circuit) : rz_circuit[i].type \in ALLOWED_GATES
        THEN /\ virtualized.status = "returned"
             /\ Len(virtualized.circuit) = Len(NonRzPositions)
             /\ \A k \in 1..Len(NonRzPositions) :
                   LET old == rz_circuit[NonRzPositions[k]]
                       new == virtualized.circuit[k]
                   IN  /\ new.type = old.type
                       /\ new.type # "Rz"
                       /\ new.args = old.args
                       /\ new.params =
                             IF old.type = "PhasedX"
                             THEN <<old.params[1],
                                    old.params[2] + RzSum(NonRzPositions[k], old.args[1])>>
                             ELSE old.params
        ELSE /\ virtualized.status = "raised"
             /\ virtualized.error = "ValueError"

\* Two PhasedX gates behind one Rz on their qubit: each takes the phase of
\* the Rz on top of its own.
C27_Witness ==
    /\ rz_circuit = <<Command("Rz", <<2>>, <<0>>), Command("PhasedX", <<1, 0>>, <<0>>),
                      Command("PhasedX", <<1, 1>>, <<0>>)>>
    /\ virtualized.status = "returned"
    /\ virtualized.circuit = <<Command("PhasedX", <<1, 2>>, <<0>>),
                               Command("PhasedX", <<1, 3>>, <<0>>)>>

-----------------------------------------------------------------------------

(* Properties of the compiler pass.                                        *)

\* The commands after every pass of the list was applied once, in order.
RECURSIVE Rewritten(_, _)
Rewritten(passes, cmds) ==
    IF passes = <<>> THEN cmds
    ELSE Rewritten(Tail(passes), apply(Head(passes), cmds))

\* C17: run returns a program of the type it was given, after every pass of
\* the list was applied exactly once, in list order, to the pytket circuit:
\* a Circuit goes to text and back to a Circuit, a textual program is built,
\* rewritten and written back as text, a pytket circuit is rewritten in
\* place and is the object returned.  Any other type raises a ValueError and
\* no pass is applied.
C17_RunKeepsRepresentation ==
    ran.op = "run" =>
        IF ran.input.type \in TaskTypes
        THEN LET ref == IF ran.input.type = "PytketCircuit" THEN ran.input.ref
                        ELSE "built"
             IN  /\ ran.status = "returned"
                 /\ ran.result.type = ran.input.type
                 /\ Len(ran.log) = Len(tket_passes)
                 /\ \A i \in 1..Len(tket_passes) : ran.log[i] = <<tket_passes[i], ref>>
                 /\ ran.input.type = "PytketCircuit" =>
                       /\ ran.result = ran.input
                       /\ pytket[ref] = Rewritten(tket_passes, ran.before)
                 /\ ran.input.type = "OpenQasmProgram" =>
                       ran.result.body =
                           tket_to_qasm3(Rewritten(tket_passes,
                                                   build_circuit(ran.input.body)))
                 /\ ran.input.type = "Circuit" =>
                       ran.result.body =
                           from_ir(tket_to_qasm3(Rewritten(tket_passes,
                                        build_circuit(to_ir(ran.input.body)))))
        ELSE /\ ran.status = "raised"
             /\ ran.error = "ValueError"
             /\ ran.log = <<>>

\* A Circuit was rebased and then simplified, and came back as a Circuit.
C17_Witness ==
    /\ tket_passes = <<"AutoRebase", "RemoveRedundancies">>
    /\ ran.op = "run"
    /\ ran.input = Task("Circuit", <<"H", "CNot">>, "None")
    /\ ran.result = Task("Circuit", <<"CZ", "H">>, "None")
    /\ Len(ran.log) = 2

-----------------------------------------------------------------------------
(* Properties of the translator.                                           *)

\* The keys of the table of a family.
TableKeys(family) ==
    CASE family = "Rigetti" -> {"CPHASE"}
      [] family = "IonQ" -> {"GPI", "GPI2"}
      [] OTHER -> {}

\* C10: a single name translates to a single name and a sequence to a list
\* of the same length, element by element; a name that is no key of the
\* family's table comes back unchanged.
C10_TranslationKeepsShape ==
    gate_name.tag # "none" =>
        /\ translated.tag = gate_name.tag
        /\ Len(translated.names) = Len(gate_name.names)
        /\ \A i \in 1..Len(gate_name.names) :
              /\ translated.names[i] =
                    _get_qpu_gate_translation(properties.family, gate_name.names[i])
              /\ gate_name.names[i] \notin TableKeys(properties.family) =>
                    translated.names[i] = gate_name.names[i]

C10_Witness ==
    /\ properties.family = "IonQ"
    /\ gate_name = [tag |-> "list", names |-> <<"GPI", "fake_gate">>]
    /\ translated = [tag |-> "list", names |-> <<"GPi", "fake_gate">>]

\* C11: translation is idempotent for every family and every name: no
\* translated name is a key of the family's table, translating the result
\* again gives the result, and a call that is given the previous result
\* returns it unchanged.
C11_TranslationIdempotent ==
    /\ [](gate_name.tag # "none" =>
            /\ \A i \in 1..Len(translated.names) :
                  translated.names[i] \notin TableKeys(properties.family)
            /\ _get_qpu_gate_translations(properties.family, translated) = translated)
    /\ [][(translated.tag # "none" /\ gate_name' = translated)
            => translated' = translated]_vars

\* Every key of the IonQ table was translated.
C11_Witness ==
    /\ properties.family = "IonQ"
    /\ gate_name = [tag |-> "list", names |-> <<"GPI", "GPI2">>]
    /\ translated = [tag |-> "list", names |-> <<"GPi", "GPi2">>]

=============================================================================
